---- MODULE Spec2Model ----
(***************************************************************************)
(* Model of the node-setup REST API: the route tables, the authorization   *)
(* middleware (protect / restrictTo), the validation middleware, the user  *)
(* service and the product / category controllers, over a document store   *)
(* of users, products and categories.  Every request is a process that     *)
(* walks its route's middleware chain; every await of the code is one      *)
(* atomic step, so concurrent requests interleave at the store calls.      *)
(***************************************************************************)
EXTENDS Integers, Sequences, FiniteSets, TLC

\* ------------------------------------------------------------- bounds
MaxReqs == 2
AuthClients == 1
MaxUsers == 4
MaxProducts == 2
MaxTime == 1
MaxCategories == 2

\* ------------------------------------------------ program constants
\* expiresIn of generateToken ("7d"), in clock ticks of the model
JwtExpire == 1
\* expiresIn of generateRefreshToken ("30d"), in the same ticks
RefreshExpire == 4

Reqs == 1..MaxReqs

VARIABLES
  users,        \* the User collection: _id -> document
  products,     \* the Product collection: _id -> document
  categories,   \* the Category collection: its documents in insertion order
  nextUserId,   \* ObjectId generator of the User collection (never reuses an id)
  nextProductId,\* ObjectId generator of the Product collection
  now,          \* the clock jwt.sign / jwt.verify / new Date() read
  reqs          \* the requests in flight: slot -> request record

vars == <<users, products, categories, nextUserId, nextProductId, now, reqs>>

\* ------------------------------------------------------------ values
Secret == "JWT_SECRET"

NoUser == [none |-> TRUE]
NoRes == [none |-> TRUE]
NoLoc == [none |-> TRUE]
NoBody == [none |-> TRUE]
NoHeader == [present |-> FALSE, words |-> <<>>]

Has(rec, f) == f \in DOMAIN rec

\* ObjectId <-> its hex string (jwt payloads and toString() carry the string)
toString(id) == <<"oid", id>>
castObjectId(s) == s[2]

\* String.prototype.toLowerCase on the e-mail addresses of the model
toLowerCase(s) ==
  CASE s = "A@x.io" -> "a@x.io"
    [] s = "B@x.io" -> "b@x.io"
    [] OTHER -> s

\* bcrypt.hash: a salted one-way digest of the plaintext
Salts == {"s1", "s2"}
bcryptHash(plain, salt) == [salt |-> salt, digest |-> <<plain, salt>>]
\* bcrypt.compare: re-hash the candidate under the digest's salt
bcryptCompare(candidate, hash) == bcryptHash(candidate, hash.salt) = hash

\* ------------------------------------------------------------ tokens
\* jwt.sign({ userId }, secret, { expiresIn, issuer, audience })
jwtSign(payload, secret, expiresIn, t) ==
  [jwt |-> payload @@ [iat |-> t, exp |-> t + expiresIn,
                       iss |-> "nodejs-rest-api", aud |-> "api-users"],
   sig |-> secret]

generateToken(userId, t) == jwtSign([userId |-> toString(userId)], Secret, JwtExpire, t)

\* (mutant) the expiry is not looked at
jwtVerify_NoExpiry(token, secret, t) ==
  IF ~Has(token, "jwt") THEN [ok |-> FALSE, name |-> "JsonWebTokenError"]
  ELSE IF token.sig # secret THEN [ok |-> FALSE, name |-> "JsonWebTokenError"]
  ELSE [ok |-> TRUE, payload |-> token.jwt]

\* jwt.verify(token, secret): malformed, then signature, then expiry
jwtVerify(token, secret, t) ==
  IF ~Has(token, "jwt") THEN [ok |-> FALSE, name |-> "JsonWebTokenError"]
  ELSE IF token.sig # secret THEN [ok |-> FALSE, name |-> "JsonWebTokenError"]
  ELSE IF t >= token.jwt.exp THEN [ok |-> FALSE, name |-> "TokenExpiredError"]
  ELSE [ok |-> TRUE, payload |-> token.jwt]

\* (mutant) a payload with a type marker is not accepted as an access token
verifyToken_AccessOnly(token, t) ==
  IF Has(token, "jwt") /\ Has(token.jwt, "type")
  THEN [ok |-> FALSE, name |-> "JsonWebTokenError"]
  ELSE jwtVerify(token, Secret, t)

verifyToken(token, t) == jwtVerify(token, Secret, t)

\* jwt.sign({ userId, type: "refresh" }, secret, { expiresIn: "30d", ... })
generateRefreshToken(userId, t) ==
  jwtSign([userId |-> toString(userId), type |-> "refresh"], Secret, RefreshExpire, t)

\* ----------------------------------------------------------- headers
\* An Authorization header is its text split at the spaces; a word is a
\* literal string or a JWT.
Lit(s) == [lit |-> s]
BearerHeader(tok) == [present |-> TRUE, words |-> <<Lit("Bearer"), tok>>]

\* req.headers.authorization && req.headers.authorization.startsWith("Bearer")
startsWithBearer(h) == h.present /\ Len(h.words) >= 1 /\ h.words[1] = Lit("Bearer")

\* req.headers.authorization.split(" ")[1]  (absent: undefined)
Undefined == [undefined |-> TRUE]
splitSecond(h) == IF Len(h.words) >= 2 THEN h.words[2] ELSE Undefined

\* the token protect extracts
extractToken(h) == IF startsWithBearer(h) THEN splitSecond(h) ELSE Undefined

\* (mutant) only a missing second word counts as "no token"
falsyToken_OnlyUndefined(tok) == tok = Undefined

\* !token : undefined or the empty string
falsyToken(tok) == tok = Undefined \/ tok = Lit("")

\* ------------------------------------------------------------ routes
UserPublicRoutes == {"POST /users/register", "POST /users/login"}
UserBearerRoutes == {"POST /users/logout", "GET /users/profile", "PUT /users/profile"}
UserAdminRoutes == {"GET /users", "DELETE /users/:id"}
ProductPublicRoutes == {"GET /products", "GET /products/:id"}
ProductBearerRoutes == {"POST /products", "PUT /products/:id", "DELETE /products/:id"}
CategoryRoutes == {"POST /categories", "GET /categories"}

BearerRoutes == UserBearerRoutes \cup UserAdminRoutes \cup ProductBearerRoutes
                  \cup {"POST /categories"}
Routes == UserPublicRoutes \cup BearerRoutes \cup ProductPublicRoutes \cup CategoryRoutes

\* (mutant) PUT /users/profile validates before it authenticates
Chain_ValidateFirst(route) ==
  CASE route = "POST /users/register" -> <<"validate", "registerUser">>
    [] route = "POST /users/login" -> <<"validate", "loginUser">>
    [] route = "POST /users/logout" -> <<"protect", "logoutUser">>
    [] route = "GET /users/profile" -> <<"protect", "getUserProfile">>
    [] route = "PUT /users/profile" -> <<"validate", "protect", "updateUserProfile">>
    [] route = "GET /users" -> <<"protect", "restrictTo", "getAllUsers">>
    [] route = "DELETE /users/:id" -> <<"protect", "restrictTo", "deleteUser">>
    [] route = "GET /products" -> <<"getAllProducts">>
    [] route = "GET /products/:id" -> <<"getProductById">>
    [] route = "POST /products" -> <<"protect", "upload", "createProduct">>
    [] route = "PUT /products/:id" -> <<"protect", "updateProduct">>
    [] route = "DELETE /products/:id" -> <<"protect", "deleteProduct">>
    [] route = "POST /categories" -> <<"protect", "createCategory">>
    [] route = "GET /categories" -> <<"getAllCategories">>
    [] route = "optionalAuth" -> <<"optionalAuth">>

\* The middleware chain the route tables declare for a route, in order; the
\* last element is the controller.
Chain(route) ==
  CASE route = "POST /users/register" -> <<"validate", "registerUser">>
    [] route = "POST /users/login" -> <<"validate", "loginUser">>
    [] route = "POST /users/logout" -> <<"protect", "logoutUser">>
    [] route = "GET /users/profile" -> <<"protect", "getUserProfile">>
    [] route = "PUT /users/profile" -> <<"protect", "validate", "updateUserProfile">>
    [] route = "GET /users" -> <<"protect", "restrictTo", "getAllUsers">>
    [] route = "DELETE /users/:id" -> <<"protect", "restrictTo", "deleteUser">>
    [] route = "GET /products" -> <<"getAllProducts">>
    [] route = "GET /products/:id" -> <<"getProductById">>
    [] route = "POST /products" -> <<"protect", "upload", "createProduct">>
    [] route = "PUT /products/:id" -> <<"protect", "updateProduct">>
    [] route = "DELETE /products/:id" -> <<"protect", "deleteProduct">>
    [] route = "POST /categories" -> <<"protect", "createCategory">>
    [] route = "GET /categories" -> <<"getAllCategories">>
    \* optionalAuth is exported and mounted on no route: the middleware alone
    [] route = "optionalAuth" -> <<"optionalAuth">>

\* the roles restrictTo(...) is given on the admin routes
AllowedRoles(route) == {"admin"}

Controller(route) == Chain(route)[Len(Chain(route))]

\* ---------------------------------------------------------- requests
IdleReq ==
  [route |-> "idle", hdr |-> NoHeader, body |-> NoBody, param |-> 0,
   idx |-> 0, pc |-> "idle", user |-> NoUser, loc |-> NoLoc,
   res |-> NoRes, sent |-> 0, thrown |-> NoRes]

NewReq(route, hdr, body, param) ==
  [IdleReq EXCEPT !.route = route, !.hdr = hdr, !.body = body, !.param = param,
                  !.idx = 1, !.pc = "start"]

Active(r) == reqs[r].route # "idle" /\ reqs[r].pc # "done"
\* the handler a request is in, and whether it stands at the handler's label
Handler(q) == IF q.route # "idle" /\ q.idx <= Len(Chain(q.route))
              THEN Chain(q.route)[q.idx] ELSE "none"
At(r, handler, label) ==
  reqs[r].pc = label /\ Handler(reqs[r]) = handler

\* res.status(s).json(body): the response is sent and the chain halts
Respond(q, status, json) ==
  [q EXCEPT !.res = [status |-> status] @@ json, !.sent = @ + 1, !.pc = "done",
            !.loc = NoLoc]
\* next(): the chain continues with the following handler
CallNext(q) == [q EXCEPT !.idx = @ + 1, !.pc = "start", !.loc = NoLoc]
\* an await resolved: the handler continues at its next label
Goto(q, label, loc) == [q EXCEPT !.pc = label, !.loc = loc]

\* the top-level error handler answers an error a controller threw
errorHandler(err) == [status |-> 500, success |-> FALSE, message |-> err.message]
Throw(q, name, message) ==
  LET err == [name |-> name, message |-> message]
  IN [q EXCEPT !.thrown = err, !.res = errorHandler(err), !.sent = @ + 1,
               !.pc = "done", !.loc = NoLoc]

Failure(message) == [success |-> FALSE, message |-> message]

\* ------------------------------------------------------- validation
\* What the Joi schemas and the Mongoose schema accept, on the values of the
\* model.  "c@x.info" is an address Joi's email() accepts and the User
\* schema's match pattern (a top-level domain of 2-3 characters) rejects;
\* "bad" is no address; "x" is a one-character name; "weak" fails the
\* password pattern.
JoiEmail(v) == v \in {"a@x.io", "A@x.io", "b@x.io", "B@x.io", "d@x.io", "c@x.info"}
JoiName(v) == v \in {"Ann", "Bob"}
JoiPassword(v) == v \in {"Passw0rd1", "Passw0rd2"}
SchemaEmailMatch(v) == v \in {"a@x.io", "b@x.io", "d@x.io", "root@x.io"}

Detail(field, message) == [field |-> field, message |-> message]

\* userValidation.register / login / updateProfile: the error details of a body
registerErrors(body) ==
  (IF ~Has(body, "name") THEN {Detail("name", "Name is required")}
   ELSE IF ~JoiName(body.name) THEN {Detail("name", "Name must be at least 2 characters long")}
   ELSE {})
  \cup
  (IF ~Has(body, "email") THEN {Detail("email", "Email is required")}
   ELSE IF ~JoiEmail(body.email) THEN {Detail("email", "Please provide a valid email address")}
   ELSE {})
  \cup
  (IF ~Has(body, "password") THEN {Detail("password", "Password is required")}
   ELSE IF ~JoiPassword(body.password)
     THEN {Detail("password", "Password must contain at least one lowercase letter, one uppercase letter, and one number")}
   ELSE {})

loginErrors(body) ==
  (IF ~Has(body, "email") THEN {Detail("email", "Email is required")}
   ELSE IF ~JoiEmail(body.email) THEN {Detail("email", "Please provide a valid email address")}
   ELSE {})
  \cup
  (IF ~Has(body, "password") THEN {Detail("password", "Password is required")} ELSE {})

updateProfileErrors(body) ==
  (IF Has(body, "name") /\ ~JoiName(body.name)
     THEN {Detail("name", "Name must be at least 2 characters long")} ELSE {})
  \cup
  (IF Has(body, "email") /\ ~JoiEmail(body.email)
     THEN {Detail("email", "Please provide a valid email address")} ELSE {})

\* schema.validate(req.body, ...).error.details for the schema the route names
schemaErrors(route, body) ==
  CASE route = "POST /users/register" -> registerErrors(body)
    [] route = "POST /users/login" -> loginErrors(body)
    [] route = "PUT /users/profile" -> updateProfileErrors(body)
    [] OTHER -> {}

\* (mutant) the schema's verdict is ignored
validate_AlwaysNext(q) == CallNext(q)

\* validate(schema): 400 with the details, or next(); req.body is left as sent
validate(q) ==
  LET errors == schemaErrors(q.route, q.body)
  IN IF errors # {}
     THEN Respond(q, 400, [success |-> FALSE, message |-> "Validation error",
                           errors |-> errors])
     ELSE CallNext(q)

\* ------------------------------------------------------- middleware
\* (mutant) the document is serialized as stored
withoutPassword_Keeps(doc) == doc

\* .select("-password") and toSafeObject(): the document without its password
withoutPassword(doc) == [f \in DOMAIN doc \ {"password"} |-> doc[f]]

\* (mutant) the catch block does not recognise TokenExpiredError
protectVerify_ExpiredUnrecognised(q, t) ==
  LET token == extractToken(q.hdr)
  IN IF falsyToken(token)
     THEN Respond(q, 401, Failure("Access denied. No token provided."))
     ELSE LET v == verifyToken(token, t)
          IN IF v.ok THEN Goto(q, "findById", [decoded |-> v.payload])
             ELSE IF v.name = "JsonWebTokenError"
               THEN Respond(q, 401, Failure("Invalid token"))
             ELSE Respond(q, 500, Failure("Server error during authentication"))

\* protect, up to the await: extract the token and verify it
protectVerify(q, t) ==
  LET token == extractToken(q.hdr)
  IN IF falsyToken(token)
     THEN Respond(q, 401, Failure("Access denied. No token provided."))
     ELSE LET v == verifyToken(token, t)
          IN IF v.ok THEN Goto(q, "findById", [decoded |-> v.payload])
             ELSE IF v.name = "JsonWebTokenError"
               THEN Respond(q, 401, Failure("Invalid token"))
             ELSE IF v.name = "TokenExpiredError"
               THEN Respond(q, 401, Failure("Token expired"))
             ELSE Respond(q, 500, Failure("Server error during authentication"))

\* User.findById(id): the stored document or null
Null == [null |-> TRUE]
findById(coll, id) == IF id \in DOMAIN coll THEN coll[id] ELSE Null

\* (mutant) the isActive check is missing
protectAttach_NoActiveCheck(q, user) ==
  IF user = Null
  THEN Respond(q, 401, Failure("Token is valid but user no longer exists"))
  ELSE CallNext([q EXCEPT !.user = withoutPassword(user)])

\* (mutant) a subject that is not stored is let through unauthenticated
protectAttach_NoExistenceCheck(q, user) ==
  IF user = Null THEN CallNext(q)
  ELSE IF ~user.isActive
  THEN Respond(q, 401, Failure("User account is deactivated"))
  ELSE CallNext([q EXCEPT !.user = withoutPassword(user)])

\* protect, after User.findById(decoded.userId).select("-password")
protectAttach(q, user) ==
  IF user = Null
  THEN Respond(q, 401, Failure("Token is valid but user no longer exists"))
  ELSE IF ~user.isActive
  THEN Respond(q, 401, Failure("User account is deactivated"))
  ELSE CallNext([q EXCEPT !.user = withoutPassword(user)])

\* (mutant) the role is not compared
restrictTo_NoCheck(q, roles) ==
  IF ~Has(q.user, "role")
  THEN Throw(q, "TypeError", "Cannot read properties of undefined")
  ELSE CallNext(q)

\* restrictTo(...roles)
restrictTo(q, roles) ==
  IF ~Has(q.user, "role")
  THEN Throw(q, "TypeError", "Cannot read properties of undefined")
  ELSE IF q.user.role \notin roles
  THEN Respond(q, 403, Failure("Access denied. Insufficient permissions."))
  ELSE CallNext(q)

Set(r, q) ==
  /\ reqs' = [reqs EXCEPT ![r] = q]
StoreUnchanged == UNCHANGED <<users, products, categories, nextUserId, nextProductId>>

Validate(r) ==
  /\ At(r, "validate", "start")
  /\ Set(r, validate(reqs[r]))
  /\ StoreUnchanged /\ UNCHANGED now

ProtectVerify(r) ==
  /\ At(r, "protect", "start")
  /\ Set(r, protectVerify(reqs[r], now))
  /\ StoreUnchanged /\ UNCHANGED now

ProtectFindById(r) ==
  /\ At(r, "protect", "findById")
  /\ Set(r, protectAttach(reqs[r],
                          findById(users, castObjectId(reqs[r].loc.decoded.userId))))
  /\ StoreUnchanged /\ UNCHANGED now

RestrictTo(r) ==
  /\ At(r, "restrictTo", "start")
  /\ Set(r, restrictTo(reqs[r], AllowedRoles(reqs[r].route)))
  /\ StoreUnchanged /\ UNCHANGED now

\* upload.single("image"): the external upload collaborator, then next()
Upload(r) ==
  /\ At(r, "upload", "start")
  /\ Set(r, CallNext(reqs[r]))
  /\ StoreUnchanged /\ UNCHANGED now

\* optionalAuth, up to the await: any failure is "continue unauthenticated"
optionalAuthVerify(q, t) ==
  IF ~startsWithBearer(q.hdr) THEN CallNext(q)
  ELSE LET token == splitSecond(q.hdr)
       IN IF falsyToken(token) THEN CallNext(q)
          ELSE LET v == verifyToken(token, t)
               IN IF v.ok THEN Goto(q, "findById", [decoded |-> v.payload])
                  ELSE CallNext(q)

\* (mutant) a stored user is attached whether active or not
optionalAuthAttach_NoActiveCheck(q, user) ==
  IF user # Null THEN CallNext([q EXCEPT !.user = withoutPassword(user)])
  ELSE CallNext(q)

\* optionalAuth, after User.findById(decoded.userId).select("-password")
optionalAuthAttach(q, user) ==
  IF user # Null /\ user.isActive
  THEN CallNext([q EXCEPT !.user = withoutPassword(user)])
  ELSE CallNext(q)

OptionalAuthVerify(r) ==
  /\ At(r, "optionalAuth", "start")
  /\ Set(r, optionalAuthVerify(reqs[r], now))
  /\ StoreUnchanged /\ UNCHANGED now

OptionalAuthFindById(r) ==
  /\ At(r, "optionalAuth", "findById")
  /\ Set(r, optionalAuthAttach(reqs[r],
                               findById(users, castObjectId(reqs[r].loc.decoded.userId))))
  /\ StoreUnchanged /\ UNCHANGED now

\* next() of the last handler of a chain: whatever is mounted after it takes
\* the request over
Downstream(r) ==
  /\ reqs[r].route # "idle" /\ reqs[r].pc = "start"
  /\ reqs[r].idx > Len(Chain(reqs[r].route))
  /\ reqs' = [reqs EXCEPT ![r] = IdleReq]
  /\ StoreUnchanged /\ UNCHANGED now

\* ------------------------------------------------------- User model
\* the schema's setters on email (lowercase), applied to documents, to query
\* filters and to updates
castEmail(v) == toLowerCase(v)

\* User.findOne({ email }): a stored document with that e-mail, or null
findOneByEmail(us, email) ==
  LET hits == {id \in DOMAIN us : us[id].email = castEmail(email)}
  IN IF hits = {} THEN Null ELSE us[CHOOSE id \in hits : \A o \in hits : id <= o]

\* (mutant) the collection has no unique index
uniqueIndexAllows_NoIndex(us, id, email) == TRUE

\* the unique index on email: may a document with this e-mail be written as id?
uniqueIndexAllows(us, id, email) ==
  \A o \in DOMAIN us : o # id => us[o].email # email

\* (mutant) the hook writes a digest under a fresh salt on every save
preSave_AlwaysHash(doc, modified, salt) ==
  IF "password" \in modified
  THEN [doc EXCEPT !.password = bcryptHash(doc.password, salt)]
  ELSE [doc EXCEPT !.password = [salt |-> salt, digest |-> <<@.digest[1], salt>>]]

\* userSchema.pre("save"): hash the password only when it was modified
preSave(doc, modified, salt) ==
  IF "password" \in modified
  THEN [doc EXCEPT !.password = bcryptHash(doc.password, salt)]
  ELSE doc

\* (mutant) save() writes the whole document as it was loaded and changed
saveDelta_WholeDocument(loaded, doc) == doc

\* document.save() of a loaded document: the paths that differ from what was
\* loaded are the ones written
saveDelta(loaded, doc) ==
  LET changed == {f \in DOMAIN doc : ~Has(loaded, f) \/ doc[f] # loaded[f]}
  IN [f \in changed |-> doc[f]]

\* (mutant) role and isActive are taken from the fields when given
userCreate_FromBody(us, id, fields, salt) ==
  LET doc == [_id |-> id, name |-> fields.name, email |-> castEmail(fields.email),
              password |-> fields.password,
              role |-> IF Has(fields, "role") THEN fields.role ELSE "user",
              isActive |-> IF Has(fields, "isActive") THEN fields.isActive ELSE TRUE]
  IN IF ~SchemaEmailMatch(doc.email)
     THEN [ok |-> FALSE, name |-> "ValidationError",
           message |-> "Please enter a valid email address"]
     ELSE IF ~uniqueIndexAllows(us, id, doc.email)
     THEN [ok |-> FALSE, name |-> "MongoServerError",
           message |-> "E11000 duplicate key error"]
     ELSE [ok |-> TRUE, doc |-> preSave(doc, {"name", "email", "password"}, salt)]

\* User.create({ name, email, password }): cast, validate, hash, insert
userCreate(us, id, fields, salt) ==
  LET doc == [_id |-> id, name |-> fields.name, email |-> castEmail(fields.email),
              password |-> fields.password, role |-> "user", isActive |-> TRUE]
  IN IF ~SchemaEmailMatch(doc.email)
     THEN [ok |-> FALSE, name |-> "ValidationError",
           message |-> "Please enter a valid email address"]
     ELSE IF ~uniqueIndexAllows(us, id, doc.email)
     THEN [ok |-> FALSE, name |-> "MongoServerError",
           message |-> "E11000 duplicate key error"]
     ELSE [ok |-> TRUE, doc |-> preSave(doc, {"name", "email", "password"}, salt)]

\* ----------------------------------------------------- user service
\* (mutant) the existing user is not looked up
registerFindOne_NoLookup(q, us) == Goto(q, "create", NoLoc)

\* registerUser, up to the first await: User.findOne({ email })
registerFindOne(q, us) ==
  IF findOneByEmail(us, q.body.email) # Null
  THEN Throw(q, "Error", "User already exists with this email")
  ELSE Goto(q, "create", NoLoc)

\* registerUser, after User.create: the token and the 201 response
registerRespond(q, user, t) ==
  Respond(q, 201, [success |-> TRUE, message |-> "User registered successfully",
                   data |-> [user |-> withoutPassword(user),
                             token |-> generateToken(user["_id"], t)]])

RegisterFindOne(r) ==
  /\ At(r, "registerUser", "start")
  /\ Set(r, registerFindOne(reqs[r], users))
  /\ StoreUnchanged /\ UNCHANGED now

RegisterCreate(r) ==
  /\ At(r, "registerUser", "create")
  /\ \E salt \in Salts :
       LET made == userCreate(users, nextUserId, reqs[r].body, salt)
       IN IF made.ok
          THEN /\ nextUserId <= MaxUsers
               /\ users' = (nextUserId :> made.doc) @@ users
               /\ nextUserId' = nextUserId + 1
               /\ Set(r, registerRespond(reqs[r], made.doc, now))
          ELSE /\ Set(r, Throw(reqs[r], made.name, made.message))
               /\ UNCHANGED <<users, nextUserId>>
  /\ UNCHANGED <<products, categories, nextProductId, now>>

\* loginUser, up to user.save(): the lookup and the three checks
loginFindOne(q, us) ==
  LET user == findOneByEmail(us, q.body.email)
  IN IF user = Null THEN Throw(q, "Error", "Invalid email or password")
     ELSE IF ~user.isActive THEN Throw(q, "Error", "Account is deactivated")
     ELSE IF ~bcryptCompare(q.body.password, user.password)
       THEN Throw(q, "Error", "Invalid email or password")
     ELSE Goto(q, "save", [user |-> user])

loginRespond(q, user, t) ==
  Respond(q, 200, [success |-> TRUE, message |-> "Login successful",
                   data |-> [user |-> withoutPassword(user),
                             token |-> generateToken(user["_id"], t)]])

LoginFindOne(r) ==
  /\ At(r, "loginUser", "start")
  /\ Set(r, loginFindOne(reqs[r], users))
  /\ StoreUnchanged /\ UNCHANGED now

\* user.lastLogin = new Date(); await user.save(): only lastLogin is written,
\* and save() rejects when the document is gone
LoginSave(r) ==
  /\ At(r, "loginUser", "save")
  /\ LET id == reqs[r].loc.user["_id"]
         doc == preSave([lastLogin |-> now] @@ reqs[r].loc.user, {"lastLogin"}, "s1")
     IN IF id \in DOMAIN users
        THEN /\ users' = [users EXCEPT ![id] = saveDelta(reqs[r].loc.user, doc) @@ @]
             /\ Set(r, loginRespond(reqs[r], doc, now))
        ELSE /\ Set(r, Throw(reqs[r], "DocumentNotFoundError", "No document found"))
             /\ UNCHANGED users
  /\ UNCHANGED <<products, categories, nextUserId, nextProductId, now>>

\* getUserProfile: User.findById(req.user._id)
getUserProfile(q, us) ==
  LET user == findById(us, q.user["_id"])
  IN IF user = Null THEN Throw(q, "Error", "User not found")
     ELSE Respond(q, 200, [success |-> TRUE,
                           message |-> "User profile retrieved successfully",
                           data |-> [user |-> withoutPassword(user)]])

GetUserProfile(r) ==
  /\ At(r, "getUserProfile", "start")
  /\ Set(r, getUserProfile(reqs[r], users))
  /\ StoreUnchanged /\ UNCHANGED now

\* updateUserProfile: the allow-list copied out of the input
allowedUpdates == {"name", "email"}

\* (mutant) every field of the input is an update
pickUpdates_All(updateData) == updateData

pickUpdates(updateData) == [f \in allowedUpdates \cap DOMAIN updateData |-> updateData[f]]

\* updates.email && updates.email !== user.email
emailIsChanging(updates, user) ==
  Has(updates, "email") /\ updates.email # "" /\ updates.email # user.email

\* updateUserProfile, after User.findById(userId)
updateProfileFindById(q, us) ==
  LET user == findById(us, q.user["_id"])
      updates == pickUpdates(q.body)
  IN IF user = Null THEN Throw(q, "Error", "User not found")
     ELSE IF emailIsChanging(updates, user) THEN Goto(q, "findOne", [updates |-> updates])
     ELSE Goto(q, "update", [updates |-> updates])

\* updateUserProfile, after User.findOne({ email: updates.email })
updateProfileFindOne(q, us) ==
  IF findOneByEmail(us, q.loc.updates.email) # Null
  THEN Throw(q, "Error", "Email already in use")
  ELSE Goto(q, "update", q.loc)

\* the update cast by the schema: email through its setter
castUpdates(updates) ==
  [f \in DOMAIN updates |-> IF f = "email" THEN castEmail(updates[f]) ELSE updates[f]]

UpdateProfileFindById(r) ==
  /\ At(r, "updateUserProfile", "start")
  /\ Set(r, updateProfileFindById(reqs[r], users))
  /\ StoreUnchanged /\ UNCHANGED now

UpdateProfileFindOne(r) ==
  /\ At(r, "updateUserProfile", "findOne")
  /\ Set(r, updateProfileFindOne(reqs[r], users))
  /\ StoreUnchanged /\ UNCHANGED now

\* User.findByIdAndUpdate(userId, updates, { new: true, runValidators: true })
UpdateProfileUpdate(r) ==
  /\ At(r, "updateUserProfile", "update")
  /\ LET id == reqs[r].user["_id"]
         set == castUpdates(reqs[r].loc.updates)
     IN IF Has(set, "email") /\ ~SchemaEmailMatch(set.email)
        THEN /\ Set(r, Throw(reqs[r], "ValidationError", "Please enter a valid email address"))
             /\ UNCHANGED users
        ELSE IF id \notin DOMAIN users
        THEN /\ Set(r, Throw(reqs[r], "TypeError", "Cannot read properties of null"))
             /\ UNCHANGED users
        ELSE IF Has(set, "email") /\ ~uniqueIndexAllows(users, id, set.email)
        THEN /\ Set(r, Throw(reqs[r], "MongoServerError", "E11000 duplicate key error"))
             /\ UNCHANGED users
        ELSE /\ users' = [users EXCEPT ![id] = set @@ @]
             /\ Set(r, Respond(reqs[r], 200,
                       [success |-> TRUE, message |-> "Profile updated successfully",
                        data |-> [user |-> withoutPassword(users'[id])]]))
  /\ UNCHANGED <<products, categories, nextUserId, nextProductId, now>>

\* (mutant) the user is not looked up before the delete
deleteUserFindById_NoCheck(q, us) == Goto(q, "delete", NoLoc)

\* deleteUser, after User.findById(userId)
deleteUserFindById(q, us) ==
  IF findById(us, q.param) = Null THEN Throw(q, "Error", "User not found")
  ELSE Goto(q, "delete", NoLoc)

\* User.findByIdAndDelete(userId): removes the document when it is there
findByIdAndDelete(coll, id) == [k \in DOMAIN coll \ {id} |-> coll[k]]

DeleteUserFindById(r) ==
  /\ At(r, "deleteUser", "start")
  /\ Set(r, deleteUserFindById(reqs[r], users))
  /\ StoreUnchanged /\ UNCHANGED now

\* (mutant) the products of the user are deleted with the user
DeleteUserDelete_Cascade(r) ==
  /\ At(r, "deleteUser", "delete")
  /\ users' = findByIdAndDelete(users, reqs[r].param)
  /\ products' = [p \in {k \in DOMAIN products : products[k].user # reqs[r].param}
                    |-> products[p]]
  /\ Set(r, Respond(reqs[r], 200, [success |-> TRUE, message |-> "User deleted successfully"]))
  /\ UNCHANGED <<categories, nextUserId, nextProductId, now>>

DeleteUserDelete(r) ==
  /\ At(r, "deleteUser", "delete")
  /\ users' = findByIdAndDelete(users, reqs[r].param)
  /\ Set(r, Respond(reqs[r], 200, [success |-> TRUE, message |-> "User deleted successfully"]))
  /\ UNCHANGED <<products, categories, nextUserId, nextProductId, now>>

LogoutUser(r) ==
  /\ At(r, "logoutUser", "start")
  /\ Set(r, Respond(reqs[r], 200, [success |-> TRUE, message |-> "Logout successful."]))
  /\ StoreUnchanged /\ UNCHANGED now

\* getAllUsers: the page of users, newest first, then the count
RECURSIVE idsDescending(_)
idsDescending(S) ==
  IF S = {} THEN <<>>
  ELSE LET m == CHOOSE x \in S : \A y \in S : y <= x
       IN <<m>> \o idsDescending(S \ {m})

Min(a, b) == IF a <= b THEN a ELSE b

\* a query-string value used as a number (page - 1, page * limit, total /
\* limit, page > 1) and Number.parseInt of it
toNumber(v) ==
  CASE v = "1" -> 1
    [] v = "2" -> 2
    [] v = "3" -> 3

\* { page = 1, limit = 10 } = options
optPage(query) == IF Has(query, "page") THEN toNumber(query.page) ELSE 1
optLimit(query) == IF Has(query, "limit") THEN toNumber(query.limit) ELSE 10

\* User.find(searchQuery).sort(sort).skip(skip).limit(limit).select("-password")
findUsersPage(us, page, limit) ==
  LET all == idsDescending(DOMAIN us)
      skip == (page - 1) * limit
      picked == SubSeq(all, skip + 1, Min(skip + limit, Len(all)))
  IN [i \in 1..Len(picked) |-> withoutPassword(us[picked[i]])]

\* (mutant) the quotient is rounded down
ceilDiv_Floor(total, limit) == total \div limit

\* Math.ceil(total / limit)
ceilDiv(total, limit) == (total + limit - 1) \div limit

pagination(page, limit, total) ==
  [currentPage |-> page, totalPages |-> ceilDiv(total, limit), totalUsers |-> total,
   hasNext |-> page * limit < total, hasPrev |-> page > 1]

GetAllUsersFind(r) ==
  /\ At(r, "getAllUsers", "start")
  /\ Set(r, Goto(reqs[r], "count",
                 [users |-> findUsersPage(users, optPage(reqs[r].body), optLimit(reqs[r].body))]))
  /\ StoreUnchanged /\ UNCHANGED now

GetAllUsersCount(r) ==
  /\ At(r, "getAllUsers", "count")
  /\ LET total == Cardinality(DOMAIN users)
     IN Set(r, Respond(reqs[r], 200,
            [success |-> TRUE, message |-> "Users retrieved successfully",
             data |-> [users |-> reqs[r].loc.users,
                       pagination |-> pagination(optPage(reqs[r].body),
                                                 optLimit(reqs[r].body), total)]]))
  /\ StoreUnchanged /\ UNCHANGED now

\* ---------------------------------------------- product controllers
NumberFields == {"price", "quantity"}
\* if (value) ... : neither undefined, nor "", nor 0
truthy(body, f) ==
  Has(body, f) /\ (IF f \in NumberFields THEN body[f] # 0 ELSE body[f] # "")

\* the Product schema's validators: required paths and description's maxlength
LongText == "a text of 501 characters"
productValid(doc) ==
  /\ \A f \in {"name", "imageUrl", "category", "subcategory"} : Has(doc, f) /\ doc[f] # ""
  /\ Has(doc, "price") /\ Has(doc, "user")
  /\ Has(doc, "description") => doc.description # LongText

requiredFields == {"name", "price", "imageUrl", "description", "category", "subcategory"}

\* Category.findOne({ name: category })
findCategory(cats, name) ==
  LET hits == {i \in 1..Len(cats) : cats[i].name = name}
  IN IF hits = {} THEN Null ELSE cats[CHOOSE i \in hits : \A j \in hits : i <= j]

includes(list, x) == \E i \in 1..Len(list) : list[i] = x

\* (mutant) the subcategory is not looked up in the category's list
createProductCheck_NoSubcategory(q, cats) ==
  IF \E f \in requiredFields : ~truthy(q.body, f)
  THEN Respond(q, 400, Failure("All fields are required: name, price, imageUrl, description, category, subcategory"))
  ELSE LET foundCategory == findCategory(cats, q.body.category)
       IN IF foundCategory = Null
          THEN Respond(q, 400, [message |-> "Category not found"])
          ELSE Goto(q, "create", NoLoc)

\* createProduct, up to Product.create: the required fields and the category
createProductCheck(q, cats) ==
  IF \E f \in requiredFields : ~truthy(q.body, f)
  THEN Respond(q, 400, Failure("All fields are required: name, price, imageUrl, description, category, subcategory"))
  ELSE LET foundCategory == findCategory(cats, q.body.category)
       IN IF foundCategory = Null
          THEN Respond(q, 400, [message |-> "Category not found"])
          ELSE IF ~includes(foundCategory.subcategories, q.body.subcategory)
          THEN Respond(q, 400, [message |-> "Invalid subcategory for this category"])
          ELSE Goto(q, "create", NoLoc)

newProduct(q, id) ==
  [_id |-> id, name |-> q.body.name, price |-> q.body.price,
   imageUrl |-> q.body.imageUrl, description |-> q.body.description,
   category |-> q.body.category, subcategory |-> q.body.subcategory,
   user |-> q.user["_id"]]

CreateProductFindCategory(r) ==
  /\ At(r, "createProduct", "start")
  /\ Set(r, createProductCheck(reqs[r], categories))
  /\ StoreUnchanged /\ UNCHANGED now

CreateProductCreate(r) ==
  /\ At(r, "createProduct", "create")
  /\ nextProductId <= MaxProducts
  /\ LET doc == newProduct(reqs[r], nextProductId)
     IN IF productValid(doc)
        THEN /\ products' = (nextProductId :> doc) @@ products
             /\ nextProductId' = nextProductId + 1
             /\ Set(r, Respond(reqs[r], 201,
                       [success |-> TRUE, message |-> "Product created successfully",
                        data |-> doc]))
        ELSE /\ Set(r, Throw(reqs[r], "ValidationError", "Product validation failed"))
             /\ UNCHANGED <<products, nextProductId>>
  /\ UNCHANGED <<users, categories, nextUserId, now>>

\* (mutant) the admin role does not count
notAuthorized_OwnerOnly(product, user) ==
  toString(product.user) # toString(user["_id"])

\* product.user.toString() !== req.user._id.toString() && req.user.role !== "admin"
notAuthorized(product, user) ==
  toString(product.user) # toString(user["_id"]) /\ user.role # "admin"

fieldsToUpdate == {"name", "price", "description", "imageUrl", "category",
                   "subcategory", "quantity"}

\* (mutant) every field of the body is assigned to the product
applyFields_AssignAll(product, body) == body @@ product

\* fieldsToUpdate.forEach(field => { if (req.body[field]) product[field] = req.body[field] })
applyFields(product, body) ==
  [f \in {g \in fieldsToUpdate : truthy(body, g)} |-> body[f]] @@ product

\* updateProduct, after Product.findById(req.params.id)
updateProductFindById(q, ps) ==
  LET product == findById(ps, q.param)
  IN IF product = Null
     THEN Respond(q, 404, Failure("Product not found"))
     ELSE IF notAuthorized(product, q.user)
     THEN Respond(q, 403, Failure("Not authorized"))
     ELSE Goto(q, "save", [loaded |-> product, product |-> applyFields(product, q.body)])

UpdateProductFindById(r) ==
  /\ At(r, "updateProduct", "start")
  /\ Set(r, updateProductFindById(reqs[r], products))
  /\ StoreUnchanged /\ UNCHANGED now

\* await product.save(): validate, then write the modified paths
UpdateProductSave(r) ==
  /\ At(r, "updateProduct", "save")
  /\ LET doc == reqs[r].loc.product
         id == doc["_id"]
     IN IF ~productValid(doc)
        THEN /\ Set(r, Throw(reqs[r], "ValidationError", "Product validation failed"))
             /\ UNCHANGED products
        ELSE IF id \notin DOMAIN products
        THEN /\ Set(r, Throw(reqs[r], "DocumentNotFoundError", "No document found"))
             /\ UNCHANGED products
        ELSE /\ products' = [products EXCEPT ![id] = saveDelta(reqs[r].loc.loaded, doc) @@ @]
             /\ Set(r, Respond(reqs[r], 200,
                       [success |-> TRUE, message |-> "Product updated", data |-> doc]))
  /\ UNCHANGED <<users, categories, nextUserId, nextProductId, now>>

\* deleteProduct, after Product.findById(req.params.id)
deleteProductFindById(q, ps) ==
  LET product == findById(ps, q.param)
  IN IF product = Null
     THEN Respond(q, 404, Failure("Product not found"))
     ELSE IF notAuthorized(product, q.user)
     THEN Respond(q, 403, Failure("Not authorized"))
     ELSE Goto(q, "deleteOne", NoLoc)

DeleteProductFindById(r) ==
  /\ At(r, "deleteProduct", "start")
  /\ Set(r, deleteProductFindById(reqs[r], products))
  /\ StoreUnchanged /\ UNCHANGED now

DeleteProductDeleteOne(r) ==
  /\ At(r, "deleteProduct", "deleteOne")
  /\ products' = findByIdAndDelete(products, reqs[r].param)
  /\ Set(r, Respond(reqs[r], 200, [success |-> TRUE, message |-> "Product deleted successfully"]))
  /\ UNCHANGED <<users, categories, nextUserId, nextProductId, now>>

\* Product.find(filter).populate("user", "name email")
populateUser(product, us) ==
  LET owner == findById(us, product.user)
  IN [product EXCEPT !.user =
        IF owner = Null THEN Null
        ELSE [_id |-> owner["_id"], name |-> owner.name, email |-> owner.email]]

GetAllProducts(r) ==
  /\ At(r, "getAllProducts", "start")
  /\ Set(r, Respond(reqs[r], 200,
            [success |-> TRUE,
             data |-> {populateUser(products[p], users) : p \in DOMAIN products}]))
  /\ StoreUnchanged /\ UNCHANGED now

getProductById(q, ps) ==
  LET product == findById(ps, q.param)
  IN IF product = Null THEN Respond(q, 404, Failure("Product not found"))
     ELSE Respond(q, 200, [success |-> TRUE, data |-> product])

GetProductById(r) ==
  /\ At(r, "getProductById", "start")
  /\ Set(r, getProductById(reqs[r], products))
  /\ StoreUnchanged /\ UNCHANGED now

\* --------------------------------------------- category controllers
\* (mutant) the length of the array is not looked at
categoryBodyBad_NoLengthCheck(body) ==
  IF ~Has(body, "name") THEN TRUE
  ELSE IF body.name = "" THEN TRUE
  ELSE IF ~Has(body, "subcategories") THEN TRUE
  ELSE ~body.subcategories.isArray

\* !name || !Array.isArray(subcategories) || subcategories.length === 0
categoryBodyBad(body) ==
  IF ~Has(body, "name") THEN TRUE
  ELSE IF body.name = "" THEN TRUE
  ELSE IF ~Has(body, "subcategories") THEN TRUE
  ELSE IF ~body.subcategories.isArray THEN TRUE
  ELSE Len(body.subcategories.items) = 0

CreateCategory(r) ==
  /\ At(r, "createCategory", "start")
  /\ categoryBodyBad(reqs[r].body) \/ Len(categories) < MaxCategories
  /\ IF categoryBodyBad(reqs[r].body)
     THEN /\ Set(r, Respond(reqs[r], 400, [message |-> "Name and subcategories are required"]))
          /\ UNCHANGED categories
     ELSE LET category == [name |-> reqs[r].body.name,
                           subcategories |-> reqs[r].body.subcategories.items]
          IN /\ categories' = Append(categories, category)
             /\ Set(r, Respond(reqs[r], 201, [success |-> TRUE, data |-> category]))
  /\ UNCHANGED <<users, products, nextUserId, nextProductId, now>>

GetAllCategories(r) ==
  /\ At(r, "getAllCategories", "start")
  /\ Set(r, Respond(reqs[r], 200, [success |-> TRUE, data |-> categories]))
  /\ StoreUnchanged /\ UNCHANGED now

\* ------------------------------------------------------------ clients
\* a JSON array / a value that is no array, as a request body carries it
Array(items) == [isArray |-> TRUE, items |-> items]
NotArray == [isArray |-> FALSE, items |-> <<>>]

\* The database the server starts on: empty, or holding an admin, an active
\* user who owns one product, a deactivated user and one category.
SeedUsers ==
  (1 :> [_id |-> 1, name |-> "Root", email |-> "root@x.io",
         password |-> bcryptHash("Passw0rd0", "s1"), role |-> "admin", isActive |-> TRUE])
  @@ (2 :> [_id |-> 2, name |-> "Ann", email |-> "a@x.io",
            password |-> bcryptHash("Passw0rd1", "s1"), role |-> "user", isActive |-> TRUE])
  @@ (3 :> [_id |-> 3, name |-> "Dan", email |-> "d@x.io",
            password |-> bcryptHash("Passw0rd1", "s2"), role |-> "user", isActive |-> FALSE])

SeedProducts ==
  (1 :> [_id |-> 1, name |-> "iPhone", price |-> 999, imageUrl |-> "http://x/y.png",
         description |-> "d", category |-> "electronics", subcategory |-> "phones",
         user |-> 2])

SeedCategories == <<[name |-> "electronics", subcategories |-> <<"phones", "laptops">>]>>

\* the tokens a client can send: signed by generateToken, just now, for a
\* user id that was allocated (a token expires while time passes)
IssuedTokens == {generateToken(u, now) : u \in 1..(nextUserId - 1)}
ForgedToken == jwtSign([userId |-> toString(2)], "another secret", JwtExpire, 0)

NoTokenHeaders ==
  {NoHeader,
   [present |-> TRUE, words |-> <<Lit("Bearer")>>],
   [present |-> TRUE, words |-> <<Lit("Bearer"), Lit("")>>],
   [present |-> TRUE, words |-> <<Lit("Basic"), Lit("dXNlcjpwdw")>>]}
BadTokenHeaders == {BearerHeader(Lit("garbage")), BearerHeader(ForgedToken)}
TokenHeaders == {BearerHeader(tok) : tok \in IssuedTokens}

Start(r, inputs) ==
  /\ reqs[r].route = "idle"
  /\ \E q \in inputs : reqs' = [reqs EXCEPT ![r] = q]
  /\ StoreUnchanged /\ UNCHANGED now

\* the response was delivered: the slot is free for the next request
Finish(r) ==
  /\ reqs[r].pc = "done"
  /\ reqs' = [reqs EXCEPT ![r] = IdleReq]
  /\ StoreUnchanged /\ UNCHANGED now

Tick ==
  /\ now < MaxTime
  /\ now' = now + 1
  /\ StoreUnchanged /\ UNCHANGED reqs

\* --------------------------------------------------- specifications
InitSeeded ==
  /\ users = SeedUsers /\ nextUserId = 4
  /\ products = SeedProducts /\ nextProductId = 2
  /\ categories = SeedCategories
  /\ now = 0
  /\ reqs = [r \in Reqs |-> IdleReq]

InitEmpty ==
  /\ users = <<>> /\ nextUserId = 1
  /\ products = <<>> /\ nextProductId = 1
  /\ categories = <<>>
  /\ now = 0
  /\ reqs = [r \in Reqs |-> IdleReq]

\* The authorization specification: every route declared with bearer auth,
\* under every kind of Authorization header, with one body per route.
AuthBody(route) ==
  CASE route = "PUT /users/profile" -> [name |-> "Bob"]
    [] route = "POST /products" ->
         [name |-> "Mac", price |-> 5, imageUrl |-> "http://x/m.png", description |-> "d",
          category |-> "electronics", subcategory |-> "laptops"]
    [] route = "PUT /products/:id" -> [price |-> 5]
    [] route = "POST /categories" -> [name |-> "toys", subcategories |-> Array(<<"dolls">>)]
    [] OTHER -> NoBody

AuthParam(route) ==
  CASE route = "DELETE /users/:id" -> 2
    [] route \in {"PUT /products/:id", "DELETE /products/:id"} -> 1
    [] OTHER -> 0

AuthInputs ==
  {NewReq(route, h, AuthBody(route), AuthParam(route)) :
     route \in BearerRoutes, h \in NoTokenHeaders \cup BadTokenHeaders \cup TokenHeaders}
  \cup {NewReq("POST /users/register", NoHeader,
                [name |-> "Bob", email |-> "b@x.io", password |-> "Passw0rd2"], 0)}

\* what a further client sends meanwhile: the admin deletes user 2
AuthWorkload ==
  {NewReq("DELETE /users/:id", BearerHeader(generateToken(1, now)), NoBody, 2)}

\* slot 1 is the client under observation, the other slots replay the workload
StartAuth(r) == Start(r, IF r = 1 THEN AuthInputs ELSE AuthWorkload)

NextAuth ==
  \/ Tick
  \/ \E r \in 1..AuthClients :
       \/ StartAuth(r) \/ Finish(r)
       \/ ProtectVerify(r) \/ ProtectFindById(r) \/ RestrictTo(r) \/ Validate(r) \/ Upload(r)
       \/ LogoutUser(r) \/ GetUserProfile(r)
       \/ UpdateProfileFindById(r) \/ UpdateProfileUpdate(r)
       \/ GetAllUsersFind(r) \/ GetAllUsersCount(r)
       \/ DeleteUserFindById(r) \/ DeleteUserDelete(r)
       \/ CreateProductFindCategory(r) \/ CreateProductCreate(r)
       \/ UpdateProductFindById(r) \/ UpdateProductSave(r)
       \/ DeleteProductFindById(r) \/ DeleteProductDeleteOne(r)
       \/ CreateCategory(r)
       \/ RegisterFindOne(r) \/ RegisterCreate(r)

SpecAuth == InitSeeded /\ [][NextAuth]_vars

\* The user specification: two clients register, log in and change their
\* e-mail addresses concurrently, and the admin deletes user 2.
RegisterBody(email) == [name |-> "Bob", email |-> email, password |-> "Passw0rd2"]

UserInputs ==
  {NewReq("POST /users/register", NoHeader, RegisterBody(e), 0) :
     e \in {"A@x.io", "b@x.io", "c@x.info", "bad"}}
  \cup {NewReq("POST /users/login", NoHeader, [email |-> e, password |-> pw], 0) :
          e \in {"a@x.io", "b@x.io", "d@x.io"}, pw \in {"Passw0rd1", "Passw0rd2"}}
  \cup {NewReq("PUT /users/profile", BearerHeader(generateToken(u, now)), [email |-> e], 0) :
          u \in {2, 4} \cap 1..(nextUserId - 1), e \in {"b@x.io", "d@x.io"}}
  \cup {NewReq("PUT /users/profile", BearerHeader(generateToken(u, now)),
                [name |-> "Ann", role |-> "admin",
                 isActive |-> FALSE, password |-> "Passw0rd1"], 0) :
          u \in {4} \cap 1..(nextUserId - 1)}
  \cup {NewReq("DELETE /users/:id", BearerHeader(generateToken(1, now)), NoBody, 2)}

NextUsers ==
  \E r \in Reqs :
    \/ Start(r, UserInputs) \/ Finish(r)
    \/ Validate(r) \/ ProtectVerify(r) \/ ProtectFindById(r) \/ RestrictTo(r)
    \/ DeleteUserFindById(r) \/ DeleteUserDelete(r)
    \/ RegisterFindOne(r) \/ RegisterCreate(r)
    \/ LoginFindOne(r) \/ LoginSave(r)
    \/ UpdateProfileFindById(r) \/ UpdateProfileFindOne(r) \/ UpdateProfileUpdate(r)

SpecUsers == InitSeeded /\ [][NextUsers]_vars

\* The product specification: the admin and the owner of product 1 create,
\* update and delete products concurrently.
ProductBody == [name |-> "Mac", price |-> 5, imageUrl |-> "http://x/m.png",
                description |-> "d", category |-> "electronics", subcategory |-> "laptops"]

ProductInputs ==
  {NewReq("POST /products", BearerHeader(generateToken(u, now)), b, 0) :
     u \in {1, 2}, b \in {ProductBody, [ProductBody EXCEPT !.subcategory = "dolls"],
                           [ProductBody EXCEPT !.category = "toys"]}}
  \cup {NewReq("PUT /products/:id", BearerHeader(generateToken(u, now)), [price |-> 5], id) :
          u \in {1, 2}, id \in 1..MaxProducts}
  \cup {NewReq("PUT /products/:id", BearerHeader(generateToken(u, now)), b, 1) :
          u \in {1, 2},
          b \in {[description |-> LongText], [name |-> "", price |-> 0],
                  [subcategory |-> "dolls"], [user |-> 1, rating |-> 5]}}
  \cup {NewReq("DELETE /products/:id", BearerHeader(generateToken(u, now)), NoBody, id) :
          u \in {1, 2}, id \in 1..MaxProducts}

NextProducts ==
  \E r \in Reqs :
    \/ Start(r, ProductInputs) \/ Finish(r)
    \/ ProtectVerify(r) \/ ProtectFindById(r) \/ Upload(r)
    \/ CreateProductFindCategory(r) \/ CreateProductCreate(r)
    \/ UpdateProductFindById(r) \/ UpdateProductSave(r)
    \/ DeleteProductFindById(r) \/ DeleteProductDeleteOne(r)

SpecProducts == InitSeeded /\ [][NextProducts]_vars


\* The query specification: two clients read users, products and categories
\* while users register, log in, change their profile and are deleted.
QueryInputs ==
  {NewReq("POST /users/register", NoHeader, RegisterBody("b@x.io"), 0),
   NewReq("POST /users/login", NoHeader, [email |-> "a@x.io", password |-> "Passw0rd1"], 0),
   NewReq("GET /users/profile", BearerHeader(generateToken(2, now)), NoBody, 0),
   NewReq("PUT /users/profile", BearerHeader(generateToken(2, now)), [name |-> "Bob"], 0),
   NewReq("GET /users", BearerHeader(generateToken(1, now)), NoBody, 0),
   NewReq("GET /users", BearerHeader(generateToken(1, now)), [limit |-> "2"], 0),
   NewReq("GET /users", BearerHeader(generateToken(1, now)), [page |-> "2"], 0),
   NewReq("GET /users", BearerHeader(generateToken(1, now)), [page |-> "2", limit |-> "2"], 0),
   NewReq("GET /users", BearerHeader(generateToken(1, now)), [page |-> "3", limit |-> "1"], 0),
   NewReq("DELETE /users/:id", BearerHeader(generateToken(1, now)), NoBody, 2),
   NewReq("GET /products", NoHeader, NoBody, 0),
   NewReq("GET /categories", NoHeader, NoBody, 0)}
  \cup {NewReq("GET /products/:id", NoHeader, NoBody, id) : id \in 1..MaxProducts}
  \cup {NewReq("PUT /products/:id", BearerHeader(generateToken(2, now)), [price |-> 5], id) :
          id \in 1..MaxProducts}
  \cup {NewReq("DELETE /products/:id", BearerHeader(generateToken(2, now)), NoBody, id) :
          id \in 1..MaxProducts}

NextQueries ==
  \E r \in Reqs :
    \/ Start(r, QueryInputs) \/ Finish(r)
    \/ Validate(r) \/ ProtectVerify(r) \/ ProtectFindById(r) \/ RestrictTo(r)
    \/ RegisterFindOne(r) \/ RegisterCreate(r)
    \/ LoginFindOne(r) \/ LoginSave(r)
    \/ GetUserProfile(r)
    \/ UpdateProfileFindById(r) \/ UpdateProfileUpdate(r)
    \/ GetAllUsersFind(r) \/ GetAllUsersCount(r)
    \/ DeleteUserFindById(r) \/ DeleteUserDelete(r)
    \/ GetAllProducts(r) \/ GetProductById(r) \/ GetAllCategories(r)
    \/ UpdateProductFindById(r) \/ UpdateProductSave(r)
    \/ DeleteProductFindById(r) \/ DeleteProductDeleteOne(r)

SpecQueries == InitSeeded /\ [][NextQueries]_vars

\* The token specification: generateToken and verifyToken on their own, for
\* every subject id, with the server's secret or another one, while time
\* passes.
SignToken(r) ==
  /\ reqs[r].pc = "idle"
  /\ \E x \in 1..MaxUsers, secret \in {Secret, "another secret"} :
       LET token == IF secret = Secret THEN generateToken(x, now)
                    ELSE jwtSign([userId |-> toString(x)], secret, JwtExpire, now)
       IN reqs' = [reqs EXCEPT ![r] = Goto(reqs[r], "signed",
                                           [subject |-> x, token |-> token])]
  /\ StoreUnchanged /\ UNCHANGED now

VerifyToken(r) ==
  /\ reqs[r].pc = "signed"
  /\ reqs' = [reqs EXCEPT ![r] =
                [reqs[r] EXCEPT !.pc = "done",
                                !.loc = [at |-> now] @@ @,
                                !.res = verifyToken(reqs[r].loc.token, now)]]
  /\ StoreUnchanged /\ UNCHANGED now

NextTokens ==
  \/ Tick
  \/ \E r \in Reqs : SignToken(r) \/ VerifyToken(r) \/ Finish(r)

SpecTokens == InitSeeded /\ [][NextTokens]_vars

\* The optional-auth specification: requests pass optionalAuth under every
\* kind of Authorization header while time passes and the admin deletes
\* user 2.
OptionalInputs ==
  {NewReq("optionalAuth", h, NoBody, 0) :
     h \in NoTokenHeaders \cup BadTokenHeaders \cup TokenHeaders}
  \cup {NewReq("DELETE /users/:id", BearerHeader(generateToken(1, now)), NoBody, 2)}

NextOptional ==
  \/ Tick
  \/ \E r \in Reqs :
       \/ Start(r, OptionalInputs) \/ Finish(r)
       \/ OptionalAuthVerify(r) \/ OptionalAuthFindById(r) \/ Downstream(r)
       \/ ProtectVerify(r) \/ ProtectFindById(r) \/ RestrictTo(r)
       \/ DeleteUserFindById(r) \/ DeleteUserDelete(r)

SpecOptional == InitSeeded /\ [][NextOptional]_vars

\* The validation specification: the three routes that carry validate, with
\* bodies that pass their schema and bodies that violate it in one or more
\* fields, with and without a token where the route asks for one.
ValidationInputs ==
  {NewReq("POST /users/register", NoHeader, b, 0) :
     b \in {RegisterBody("b@x.io"), RegisterBody("bad"), NoBody,
            [name |-> "x", email |-> "b@x.io", password |-> "weak"],
            [RegisterBody("b@x.io") EXCEPT !.name = "Ann"] @@ [role |-> "admin", isActive |-> FALSE]}}
  \cup {NewReq("POST /users/login", NoHeader, b, 0) :
          b \in {[email |-> "a@x.io", password |-> "Passw0rd1"],
                 [email |-> "a@x.io"], [email |-> "bad", password |-> "Passw0rd1"]}}
  \cup {NewReq("PUT /users/profile", h, b, 0) :
          h \in {NoHeader, BearerHeader(generateToken(2, now))},
          b \in {[name |-> "Bob"], [email |-> "b@x.io"], [name |-> "x"],
                 [name |-> "x", email |-> "bad"]}}
  \cup {NewReq("GET /users", h, NoBody, 0) :
          h \in {NoHeader, BearerHeader(generateToken(2, now)),
                 BearerHeader(generateToken(1, now))}}

NextValidation ==
  \E r \in Reqs :
    \/ Start(r, ValidationInputs) \/ Finish(r)
    \/ Validate(r) \/ ProtectVerify(r) \/ ProtectFindById(r) \/ RestrictTo(r)
    \/ RegisterFindOne(r) \/ RegisterCreate(r)
    \/ LoginFindOne(r) \/ LoginSave(r)
    \/ UpdateProfileFindById(r) \/ UpdateProfileFindOne(r) \/ UpdateProfileUpdate(r)
    \/ GetAllUsersFind(r) \/ GetAllUsersCount(r)

SpecValidation == InitSeeded /\ [][NextValidation]_vars

\* The category specification: authenticated users create categories from
\* well-formed and ill-formed bodies, categories are listed, and products are
\* created under the categories stored.
CategoryInputs ==
  {NewReq("POST /categories", BearerHeader(generateToken(u, now)), b, 0) :
     u \in {1, 2},
     b \in {[name |-> "toys", subcategories |-> Array(<<"dolls">>)],
            [name |-> "toys", subcategories |-> Array(<<>>)],
            [name |-> "toys", subcategories |-> NotArray],
            [name |-> "toys"],
            [name |-> "", subcategories |-> Array(<<"dolls">>)],
            [subcategories |-> Array(<<"dolls">>)]}}
  \cup {NewReq("GET /categories", NoHeader, NoBody, 0)}
  \cup {NewReq("POST /products", BearerHeader(generateToken(2, now)),
                 [ProductBody EXCEPT !.category = "toys", !.subcategory = "dolls"], 0)}

NextCategories ==
  \E r \in Reqs :
    \/ Start(r, CategoryInputs) \/ Finish(r)
    \/ ProtectVerify(r) \/ ProtectFindById(r) \/ Upload(r)
    \/ CreateCategory(r) \/ GetAllCategories(r)
    \/ CreateProductFindCategory(r) \/ CreateProductCreate(r)

SpecCategories == InitSeeded /\ [][NextCategories]_vars

\* The ownership specification: the admin deletes user 2, the owner of
\* product 1, while user 2, the admin and a newly registered user create,
\* read, update and delete products.
OwnershipInputs ==
  {NewReq("DELETE /users/:id", BearerHeader(generateToken(1, now)), NoBody, 2),
   NewReq("POST /users/register", NoHeader, RegisterBody("b@x.io"), 0),
   NewReq("GET /products", NoHeader, NoBody, 0),
   NewReq("GET /products/:id", NoHeader, NoBody, 1),
   NewReq("POST /products", BearerHeader(generateToken(2, now)), ProductBody, 0)}
  \cup {NewReq("PUT /products/:id", BearerHeader(generateToken(u, now)), [price |-> 5], id) :
          u \in {1, 2, 4} \cap 1..(nextUserId - 1), id \in 1..MaxProducts}
  \cup {NewReq("DELETE /products/:id", BearerHeader(generateToken(u, now)), NoBody, 1) :
          u \in {1, 4} \cap 1..(nextUserId - 1)}

NextOwnership ==
  \E r \in Reqs :
    \/ Start(r, OwnershipInputs) \/ Finish(r)
    \/ Validate(r) \/ ProtectVerify(r) \/ ProtectFindById(r) \/ RestrictTo(r) \/ Upload(r)
    \/ RegisterFindOne(r) \/ RegisterCreate(r)
    \/ DeleteUserFindById(r) \/ DeleteUserDelete(r)
    \/ GetAllProducts(r) \/ GetProductById(r)
    \/ CreateProductFindCategory(r) \/ CreateProductCreate(r)
    \/ UpdateProductFindById(r) \/ UpdateProductSave(r)
    \/ DeleteProductFindById(r) \/ DeleteProductDeleteOne(r)

SpecOwnership == InitSeeded /\ [][NextOwnership]_vars

\* The role specification: from the seeded store or from the empty one,
\* clients register with role and isActive in the body, log in, ask for the
\* admin role in a profile update, and call the admin routes.
RoleInputs ==
  {NewReq("POST /users/register", NoHeader,
           RegisterBody(e) @@ [role |-> "admin", isActive |-> FALSE], 0) :
     e \in {"A@x.io", "b@x.io"}}
  \cup {NewReq("POST /users/login", NoHeader, [email |-> "b@x.io", password |-> "Passw0rd2"], 0)}
  \cup {NewReq("PUT /users/profile", BearerHeader(generateToken(u, now)),
                 [name |-> "Ann", role |-> "admin", isActive |-> FALSE], 0) :
          u \in {1, 2} \cap 1..(nextUserId - 1)}
  \cup {NewReq("GET /users", BearerHeader(generateToken(u, now)), NoBody, 0) :
          u \in {1, 2} \cap 1..(nextUserId - 1)}
  \cup {NewReq("DELETE /users/:id", BearerHeader(generateToken(u, now)), NoBody, 2) :
          u \in {1, 2} \cap 1..(nextUserId - 1)}

NextRoles ==
  \E r \in Reqs :
    \/ Start(r, RoleInputs) \/ Finish(r)
    \/ Validate(r) \/ ProtectVerify(r) \/ ProtectFindById(r) \/ RestrictTo(r)
    \/ RegisterFindOne(r) \/ RegisterCreate(r)
    \/ LoginFindOne(r) \/ LoginSave(r)
    \/ UpdateProfileFindById(r) \/ UpdateProfileUpdate(r)
    \/ GetAllUsersFind(r) \/ GetAllUsersCount(r)
    \/ DeleteUserFindById(r) \/ DeleteUserDelete(r)

SpecRoles == (InitSeeded \/ InitEmpty) /\ [][NextRoles]_vars

\* The refresh-token specification: bearer routes are called with access
\* tokens, with refresh tokens (fresh, or one tick before their expiry) and
\* with a token this server's secret signed for another issuer and audience,
\* while time passes.
ForeignToken(u, t) ==
  [jwt |-> [userId |-> toString(u), iat |-> t, exp |-> t + JwtExpire,
            iss |-> "another-api", aud |-> "other-users"],
   sig |-> Secret]

RefreshInputs ==
  {NewReq(route, BearerHeader(tok), NoBody, 0) :
     route \in {"GET /users/profile", "POST /users/logout"},
     tok \in UNION {{generateToken(u, now), generateRefreshToken(u, now),
                     generateRefreshToken(u, now - RefreshExpire + 1),
                     ForeignToken(u, now)} : u \in 1..(nextUserId - 1)}}

NextRefresh ==
  \/ Tick
  \/ \E r \in Reqs :
       \/ Start(r, RefreshInputs) \/ Finish(r)
       \/ ProtectVerify(r) \/ ProtectFindById(r)
       \/ GetUserProfile(r) \/ LogoutUser(r)

SpecRefresh == InitSeeded /\ [][NextRefresh]_vars

\* ------------------------------------------------------------ claims
\* a request takes a step of its own (a step of the server on its behalf)
Steps(r) == reqs[r].pc \notin {"idle", "done"} /\ reqs'[r] # reqs[r]
\* the token a request carries was signed by this server
Signed(tok) == Has(tok, "jwt") /\ tok.sig = Secret
SubjectId(tok) == castObjectId(tok.jwt.userId)

\* C1: every step of protect either waits for the subject to be loaded, or
\* sends exactly one error response without calling next and without setting
\* req.user, or calls next exactly once without responding; it calls next only
\* for a token this server signed, whose subject is stored and active at the
\* load, and req.user is then that stored user.
C1_ProtectPending(r) ==
  /\ reqs[r].pc = "start"
  /\ verifyToken(extractToken(reqs[r].hdr), now).ok
  /\ reqs'[r].pc = "findById" /\ reqs'[r].idx = reqs[r].idx
  /\ reqs'[r].sent = reqs[r].sent /\ reqs'[r].res = NoRes /\ reqs'[r].user = NoUser
C1_ProtectHalted(r) ==
  /\ reqs'[r].pc = "done" /\ reqs'[r].idx = reqs[r].idx
  /\ reqs'[r].sent = reqs[r].sent + 1
  /\ reqs'[r].res.status >= 400 /\ reqs'[r].res.success = FALSE
  /\ reqs'[r].user = NoUser
C1_ProtectContinued(r) ==
  LET tok == extractToken(reqs[r].hdr)
  IN /\ reqs[r].pc = "findById"
     /\ Signed(tok)
     /\ SubjectId(tok) \in DOMAIN users
     /\ users[SubjectId(tok)].isActive
     /\ reqs'[r].user = withoutPassword(users[SubjectId(tok)])
     /\ reqs'[r].idx = reqs[r].idx + 1 /\ reqs'[r].pc = "start"
     /\ reqs'[r].sent = reqs[r].sent /\ reqs'[r].res = NoRes
C1_ProtectOutcome ==
  [][\A r \in Reqs :
       (Steps(r) /\ Handler(reqs[r]) = "protect") =>
          (C1_ProtectPending(r) \/ C1_ProtectHalted(r) \/ C1_ProtectContinued(r))]_vars
\* a request of the active user 2 went on from protect with her document,
\* less the password, attached
C1_Witness ==
  \E r \in Reqs :
    /\ reqs[r].route = "PUT /products/:id" /\ reqs[r].idx = 2 /\ reqs[r].sent = 0
    /\ 2 \in DOMAIN users /\ reqs[r].user = withoutPassword(users[2])

\* C2: on every route declared with bearer auth, a request without an
\* Authorization header, or with one no token can be extracted from (no
\* Bearer scheme, or nothing or the empty string after it), has one step only: the 401 "Access denied. No token provided."; the controller is
\* not reached and that step leaves the three stores unchanged.
C2_NoTokenRejected ==
  [][\A r \in Reqs :
       (/\ reqs[r].route \in BearerRoutes
        /\ reqs[r].hdr \in NoTokenHeaders
        /\ reqs'[r] # reqs[r])
       => \/ /\ reqs[r].pc = "start" /\ reqs[r].idx = 1
             /\ reqs'[r].pc = "done" /\ reqs'[r].idx = 1
             /\ Handler(reqs'[r]) # Controller(reqs[r].route)
             /\ reqs'[r].res = [status |-> 401, success |-> FALSE,
                                message |-> "Access denied. No token provided."]
             /\ UNCHANGED <<users, products, categories>>
          \/ reqs[r].pc = "done" /\ reqs'[r] = IdleReq]_vars
C2_Witness ==
  \E r \in Reqs :
    /\ reqs[r].route = "DELETE /products/:id" /\ reqs[r].pc = "done"
    /\ reqs[r].hdr = [present |-> TRUE, words |-> <<Lit("Bearer"), Lit("")>>]
    /\ reqs[r].res.status = 401
    /\ reqs[r].res.message = "Access denied. No token provided."
    /\ 1 \in DOMAIN products

\* C3: when the verification of an extracted token fails in protect, the
\* response is 401 and the chain halts; the message is "Token expired" for a
\* token of this server that is past its expiry and "Invalid token" for a
\* malformed or badly signed one, and nothing else differs.
C3_VerifyFailureIs401 ==
  [][\A r \in Reqs :
       LET tok == extractToken(reqs[r].hdr)
       IN (/\ Steps(r) /\ Handler(reqs[r]) = "protect" /\ reqs[r].pc = "start"
           /\ ~falsyToken(tok)
           /\ ~(Signed(tok) /\ now < tok.jwt.exp))
          => /\ reqs'[r].pc = "done" /\ reqs'[r].idx = reqs[r].idx
             /\ reqs'[r].res = [status |-> 401, success |-> FALSE,
                                message |-> IF Signed(tok) THEN "Token expired"
                                            ELSE "Invalid token"]]_vars
C3_Witness ==
  \E r \in Reqs :
    /\ reqs[r].pc = "done" /\ reqs[r].idx = 1 /\ reqs[r].route \in BearerRoutes
    /\ Signed(extractToken(reqs[r].hdr))
    /\ reqs[r].res.status = 401 /\ reqs[r].res.message = "Token expired"

\* C4: a request still in protect whose token names a user that is not stored,
\* or is stored with isActive false, is answered 401 by protect and goes no
\* further; and a user id that was deleted is never stored again, so this
\* holds for every request that starts after deleteUser completed.
C4_Gone(id) == id < nextUserId /\ id \notin DOMAIN users
C4_DeletedSubjectRejected ==
  [][/\ \A id \in 1..MaxUsers : C4_Gone(id) => id \notin DOMAIN users'
     /\ \A r \in Reqs :
          LET tok == extractToken(reqs[r].hdr)
          IN (/\ Steps(r) /\ Handler(reqs[r]) = "protect" /\ Signed(tok)
              /\ \/ C4_Gone(SubjectId(tok))
                 \/ /\ SubjectId(tok) \in DOMAIN users
                    /\ ~users[SubjectId(tok)].isActive)
             => \/ /\ reqs[r].pc = "start" /\ reqs'[r].pc = "findById"
                   /\ reqs'[r].idx = reqs[r].idx
                \/ /\ reqs'[r].pc = "done" /\ reqs'[r].idx = reqs[r].idx
                   /\ reqs'[r].res.status = 401]_vars
\* user 2 was deleted, a user was registered after that, and a request with a
\* live token of user 2 got the 401
C4_Witness ==
  \E r \in Reqs :
    /\ reqs[r].pc = "done" /\ reqs[r].idx = 1
    /\ reqs[r].route = "POST /products"
    /\ Signed(extractToken(reqs[r].hdr)) /\ SubjectId(extractToken(reqs[r].hdr)) = 2
    /\ 2 \notin DOMAIN users /\ 4 \in DOMAIN users
    /\ reqs[r].res.status = 401
    /\ reqs[r].res.message = "Token is valid but user no longer exists"

\* C5: on GET /users and DELETE /users/:id, restrictTo is reached only with a
\* subject attached by protect, the controller only with a subject whose role
\* is admin, and a request restrictTo halts was sent by a subject whose role
\* is not admin and got the 403 "Access denied. Insufficient permissions.".
C5_AdminOnly ==
  \A r \in Reqs :
    reqs[r].route \in UserAdminRoutes =>
      /\ reqs[r].idx >= 2 => Has(reqs[r].user, "_id")
      /\ reqs[r].idx >= 3 => reqs[r].user.role = "admin"
      /\ Handler(reqs[r]) = Controller(reqs[r].route) => reqs[r].user.role = "admin"
      /\ (reqs[r].idx = 2 /\ reqs[r].pc = "done") =>
           /\ reqs[r].user.role # "admin"
           /\ reqs[r].res = [status |-> 403, success |-> FALSE,
                             message |-> "Access denied. Insufficient permissions."]
C5_Witness ==
  \E r \in Reqs :
    /\ reqs[r].route = "GET /users" /\ reqs[r].idx = 2 /\ reqs[r].pc = "done"
    /\ reqs[r].res.status = 403 /\ reqs[r].user["_id"] = 2

\* the caller of a product request is the product's owner or an admin
OwnerOrAdmin(r, product) ==
  product.user = reqs[r].user["_id"] \/ reqs[r].user.role = "admin"
Forbidden403 == [status |-> 403, success |-> FALSE, message |-> "Not authorized"]

\* C6 (as stated): a request to update or delete a stored product ends in
\* success if and only if the caller is the product's owner or an admin, and
\* a caller who is neither gets the 403 "Not authorized" with the product
\* unchanged.
C6_SucceedIffAuthorized ==
  [][\A r \in Reqs :
       (/\ Steps(r) /\ Handler(reqs[r]) \in {"updateProduct", "deleteProduct"}
        /\ reqs'[r].pc = "done" /\ reqs[r].param \in DOMAIN products)
       => LET allowed == OwnerOrAdmin(r, products[reqs[r].param])
          IN /\ (reqs'[r].res.status = 200) <=> allowed
             /\ ~allowed => reqs'[r].res = Forbidden403 /\ products' = products]_vars

\* C6 (amended): a request to update or delete a stored product is refused,
\* with the 403 "Not authorized" and the product unchanged, if and only if the
\* caller is neither the product's owner nor an admin; the delete of an owner
\* or admin succeeds; the update of an owner or admin succeeds exactly when
\* the changed document passes the Product schema and the product is still
\* stored, and otherwise leaves the products unchanged.
C6_OwnerOrAdmin ==
  [][\A r \in Reqs :
       /\ (/\ Steps(r) /\ Handler(reqs[r]) \in {"updateProduct", "deleteProduct"}
           /\ reqs[r].pc = "start" /\ reqs[r].param \in DOMAIN products)
          => IF OwnerOrAdmin(r, products[reqs[r].param])
             THEN /\ reqs'[r].pc \in {"save", "deleteOne"}
                  /\ reqs'[r].sent = reqs[r].sent /\ products' = products
             ELSE /\ reqs'[r].pc = "done" /\ reqs'[r].res = Forbidden403
                  /\ products' = products
       /\ (Steps(r) /\ At(r, "deleteProduct", "deleteOne"))
          => /\ reqs'[r].res.status = 200
             /\ reqs[r].param \notin DOMAIN products'
             /\ reqs[r].param \in DOMAIN products
                  => OwnerOrAdmin(r, products[reqs[r].param])
       /\ (Steps(r) /\ At(r, "updateProduct", "save"))
          => /\ OwnerOrAdmin(r, reqs[r].loc.loaded)
             /\ (reqs'[r].res.status = 200)
                  <=> (/\ productValid(reqs[r].loc.product)
                       /\ reqs[r].param \in DOMAIN products)
             /\ reqs'[r].res.status # 200 => products' = products]_vars
\* the owner of product 1 was refused on the admin's product 2, and the admin
\* deleted product 1, which is not the admin's
C6_Witness ==
  \E r, s \in Reqs :
    /\ reqs[r].route = "PUT /products/:id" /\ reqs[r].param = 2
    /\ reqs[r].pc = "done" /\ reqs[r].res = Forbidden403
    /\ reqs[r].user["_id"] = 2
    /\ 2 \in DOMAIN products /\ products[2].user = 1
    /\ reqs[s].route = "DELETE /products/:id" /\ reqs[s].param = 1
    /\ reqs[s].pc = "done" /\ reqs[s].res.status = 200
    /\ reqs[s].user["_id"] = 1 /\ 1 \notin DOMAIN products

\* C7: when registerUser looks up an e-mail that a stored user carries, the
\* request fails with "User already exists with this email", no user is
\* created and no token is issued; when updateUserProfile looks up a new
\* e-mail that another user carries, the request fails with "Email already in
\* use" and the users are unchanged.
C7_ConflictRejected ==
  [][\A r \in Reqs :
       /\ (/\ Steps(r) /\ At(r, "registerUser", "start")
           /\ \E id \in DOMAIN users : users[id].email = toLowerCase(reqs[r].body.email))
          => /\ reqs'[r].pc = "done"
             /\ reqs'[r].thrown = [name |-> "Error",
                                   message |-> "User already exists with this email"]
             /\ reqs'[r].res.success = FALSE /\ ~Has(reqs'[r].res, "data")
             /\ users' = users /\ nextUserId' = nextUserId
       /\ (/\ Steps(r) /\ At(r, "updateUserProfile", "findOne")
           /\ \E id \in DOMAIN users :
                /\ id # reqs[r].user["_id"]
                /\ users[id].email = toLowerCase(reqs[r].loc.updates.email))
          => /\ reqs'[r].pc = "done"
             /\ reqs'[r].thrown = [name |-> "Error", message |-> "Email already in use"]
             /\ reqs'[r].res.success = FALSE
             /\ users' = users]_vars
C7_Witness ==
  \E r, s \in Reqs :
    /\ reqs[r].route = "POST /users/register" /\ reqs[r].pc = "done"
    /\ reqs[r].body.email = "A@x.io"
    /\ reqs[r].thrown = [name |-> "Error",
                          message |-> "User already exists with this email"]
    /\ reqs[s].route = "PUT /users/profile" /\ reqs[s].pc = "done"
    /\ reqs[s].body.email = "d@x.io" /\ reqs[s].user["_id"] = 2
    /\ reqs[s].thrown = [name |-> "Error", message |-> "Email already in use"]
    /\ users = SeedUsers

\* C8: no two stored users carry the same e-mail, whatever the interleaving
\* of the lookups and the writes of registerUser and updateUserProfile.
C8_EmailUnique ==
  \A i, j \in DOMAIN users : i # j => users[i].email # users[j].email
\* a registration and an e-mail change both passed their lookup for the same
\* free address; the change was written and the registration was refused by
\* the index
C8_Witness ==
  \E r \in Reqs :
    /\ reqs[r].route = "POST /users/register" /\ reqs[r].pc = "done"
    /\ reqs[r].body.email = "b@x.io"
    /\ reqs[r].thrown = [name |-> "MongoServerError",
                          message |-> "E11000 duplicate key error"]
    /\ 2 \in DOMAIN users /\ users[2].email = "b@x.io"

\* C9 (as stated): when registerUser, past validation, creates the user for
\* an e-mail no stored user carries, exactly one user is added, the response
\* carries a token that verifies to the id of that user, and protect attaches
\* that user for it.
C9_RegistrationSucceeds ==
  [][\A r \in Reqs :
       (/\ Steps(r) /\ At(r, "registerUser", "create")
        /\ ~\E id \in DOMAIN users : users[id].email = toLowerCase(reqs[r].body.email))
       => /\ DOMAIN users' = DOMAIN users \cup {nextUserId}
          /\ nextUserId \notin DOMAIN users
          /\ Has(reqs'[r].res, "data")
          /\ LET v == verifyToken(reqs'[r].res.data.token, now)
             IN /\ v.ok
                /\ castObjectId(v.payload.userId) = nextUserId
                /\ protectAttach(IdleReq, findById(users', nextUserId)).user
                     = withoutPassword(users'[nextUserId])]_vars

\* C10 (as stated): loginUser goes on to return a token if and only if the
\* user its lookup finds exists, is active and has the password given; a
\* login whose e-mail no user carries and a login whose password is wrong
\* both fail with "Invalid email or password", and change no stored state.
C10_LoginContract ==
  [][\A r \in Reqs :
       (Steps(r) /\ At(r, "loginUser", "start"))
       => LET user == findOneByEmail(users, reqs[r].body.email)
              matches == IF user = Null THEN FALSE
                         ELSE bcryptCompare(reqs[r].body.password, user.password)
              good == IF user = Null THEN FALSE ELSE user.isActive /\ matches
          IN /\ good <=> reqs'[r].pc = "save"
             /\ ~matches =>
                  /\ reqs'[r].pc = "done"
                  /\ reqs'[r].thrown = [name |-> "Error",
                                        message |-> "Invalid email or password"]
                  /\ users' = users /\ products' = products
                  /\ categories' = categories]_vars

\* C11: the password digest of a user is written when the user is created,
\* from the plaintext of the registration, which verifies against it; no
\* later step (a login saving lastLogin, a profile update) changes the digest
\* of a stored user.
C11_DigestStable ==
  [][\A id \in DOMAIN users' :
       IF id \in DOMAIN users
       THEN users'[id].password = users[id].password
       ELSE \E r \in Reqs :
              /\ At(r, "registerUser", "create")
              /\ bcryptCompare(reqs[r].body.password, users'[id].password)]_vars
\* user 4 registered with "Passw0rd2", then logged in and changed the name,
\* and the plaintext still verifies
C11_Witness ==
  /\ 4 \in DOMAIN users
  /\ Has(users[4], "lastLogin") /\ users[4].name = "Ann"
  /\ bcryptCompare("Passw0rd2", users[4].password)

\* a response carries a user's password field
PasswordIn(q) ==
  /\ Has(q.res, "data")
  /\ CASE q.route \in {"POST /users/register", "POST /users/login",
                       "GET /users/profile", "PUT /users/profile"} ->
            Has(q.res.data.user, "password")
       [] q.route = "GET /users" ->
            \E i \in DOMAIN q.res.data.users : Has(q.res.data.users[i], "password")
       [] q.route = "GET /products" ->
            \E p \in q.res.data : Has(p, "password") \/ Has(p.user, "password")
       [] q.route \in {"GET /products/:id", "POST /products", "PUT /products/:id"} ->
            Has(q.res.data, "password")
       [] OTHER -> FALSE

\* C12: no response of register, login, get profile, update profile, list
\* users or the product listing (which populates the owner) carries a
\* password field of a user, hashed or not.
C12_NoPasswordInResponse == \A r \in Reqs : ~PasswordIn(reqs[r])
\* a login (which selects the password to compare it) answered with the user,
\* and the product listing answered with the populated owner
C12_Witness ==
  \E r, s \in Reqs :
    /\ reqs[r].route = "POST /users/login" /\ reqs[r].pc = "done"
    /\ reqs[r].res.status = 200 /\ reqs[r].res.data.user.email = "a@x.io"
    /\ Has(users[2], "password")
    /\ reqs[s].route = "GET /products" /\ reqs[s].pc = "done"
    /\ \E p \in reqs[s].res.data : p.user # Null /\ p.user.name = "Ann"

\* C13: a token generated for subject X verifies, before its expiry, to a
\* payload whose userId is X; at or after the expiry its verification fails
\* with TokenExpiredError; a token signed with another secret fails with
\* JsonWebTokenError.
C13_TokenRoundTrip ==
  \A r \in Reqs :
    (reqs[r].pc = "done" /\ Has(reqs[r].loc, "token")) =>
      LET token == reqs[r].loc.token
          result == reqs[r].res
      IN IF token.sig # Secret
         THEN result = [ok |-> FALSE, name |-> "JsonWebTokenError"]
         ELSE IF reqs[r].loc.at < token.jwt.iat + JwtExpire
         THEN /\ result.ok
              /\ result.payload.userId = toString(reqs[r].loc.subject)
              /\ castObjectId(result.payload.userId) = reqs[r].loc.subject
         ELSE result = [ok |-> FALSE, name |-> "TokenExpiredError"]
\* the same subject's token verified in time in one slot and too late in the
\* other
C13_Witness ==
  \E r, s \in Reqs :
    /\ reqs[r].pc = "done" /\ Has(reqs[r].loc, "token")
    /\ reqs[r].res.ok /\ reqs[r].loc.subject = 3
    /\ reqs[s].pc = "done" /\ Has(reqs[s].loc, "token")
    /\ reqs[s].loc.subject = 3 /\ reqs[s].loc.token.sig = Secret
    /\ ~reqs[s].res.ok /\ reqs[s].res.name = "TokenExpiredError"

\* C14: when createProduct, given all required fields, finds no stored
\* category of the name given, or finds one whose list lacks the subcategory
\* given, it answers 400 and no product is written; and every step that
\* writes a new product is the create of a request whose category is stored
\* with the subcategory in its list.
C14_CategoryRule ==
  [][/\ \A r \in Reqs :
          (/\ Steps(r) /\ At(r, "createProduct", "start")
           /\ \A f \in requiredFields : truthy(reqs[r].body, f)
           /\ \/ ~\E i \in 1..Len(categories) : categories[i].name = reqs[r].body.category
              \/ ~includes(findCategory(categories, reqs[r].body.category).subcategories,
                           reqs[r].body.subcategory))
          => /\ reqs'[r].pc = "done" /\ reqs'[r].res.status = 400
             /\ products' = products /\ nextProductId' = nextProductId
     /\ \A id \in DOMAIN products' \ DOMAIN products :
          \E r \in Reqs :
            /\ At(r, "createProduct", "create")
            /\ products'[id].category = reqs[r].body.category
            /\ products'[id].subcategory = reqs[r].body.subcategory
            /\ \E i \in 1..Len(categories) :
                 /\ categories[i].name = reqs[r].body.category
                 /\ includes(categories[i].subcategories, reqs[r].body.subcategory)]_vars
\* one request was refused for its subcategory, another for its category,
\* and a product of a listed pair was created meanwhile
C14_Witness ==
  \E r, s \in Reqs :
    /\ reqs[r].route = "POST /products" /\ reqs[r].pc = "done"
    /\ reqs[r].res = [status |-> 400, message |-> "Invalid subcategory for this category"]
    /\ reqs[s].route = "POST /products" /\ reqs[s].pc = "done"
    /\ reqs[s].res = [status |-> 400, message |-> "Category not found"]
    /\ 2 \in DOMAIN products /\ products[2].subcategory = "laptops"

\* C15 (as stated): an update that would leave a product with a category
\* that is not stored, or a subcategory its category does not list, fails
\* before any write, so every stored product's subcategory is in the list of
\* its category.
C15_UpdateKeepsCategoryRule ==
  \A id \in DOMAIN products :
    \E i \in 1..Len(categories) :
      /\ categories[i].name = products[id].category
      /\ includes(categories[i].subcategories, products[id].subcategory)

\* the fields a product update may change
UpdatableFields == {"name", "price", "description", "imageUrl", "category",
                    "subcategory", "quantity"}

\* C16: a step changes a stored product only in fields of the allow-list
\* (name, price, description, imageUrl, category, subcategory, quantity); a
\* product is written first with the id of the authenticated caller of its
\* createProduct as its user, and no later step changes that reference.
C16_UpdateFrame ==
  [][\A id \in DOMAIN products' :
       IF id \in DOMAIN products
       THEN /\ products'[id].user = products[id].user
            /\ DOMAIN products[id] \subseteq DOMAIN products'[id]
            /\ \A f \in DOMAIN products'[id] :
                 (~Has(products[id], f) \/ products'[id][f] # products[id][f])
                    => f \in UpdatableFields
       ELSE \E r \in Reqs :
              /\ At(r, "createProduct", "create")
              /\ Has(reqs[r].user, "_id")
              /\ products'[id].user = reqs[r].user["_id"]]_vars
\* the owner's update carrying a user field was answered 200, and product 1
\* is still the owner's
C16_Witness ==
  \E r \in Reqs :
    /\ reqs[r].route = "PUT /products/:id" /\ reqs[r].param = 1
    /\ reqs[r].body = [user |-> 1, rating |-> 5]
    /\ reqs[r].pc = "done" /\ reqs[r].res.status = 200
    /\ reqs[r].user["_id"] = 2
    /\ 1 \in DOMAIN products /\ products[1].user = 2

\* C17: an update of a stored product by its owner or an admin whose input
\* has none of the allow-listed fields loads the product, changes nothing in
\* it, and its save answers 200 with the products as they were; so any number
\* of such updates leaves the same product.
C17_EmptyUpdateChangesNothing ==
  [][\A r \in Reqs :
       (/\ Steps(r) /\ Handler(reqs[r]) = "updateProduct"
        /\ DOMAIN reqs[r].body \cap UpdatableFields = {}
        /\ reqs[r].param \in DOMAIN products
        /\ reqs[r].pc = "start" => OwnerOrAdmin(r, products[reqs[r].param]))
       => /\ products' = products
          /\ reqs[r].pc = "start" =>
               /\ reqs'[r].pc = "save"
               /\ reqs'[r].loc.product = products[reqs[r].param]
          /\ reqs[r].pc = "save" =>
               /\ reqs'[r].pc = "done" /\ reqs'[r].res.status = 200
               /\ reqs'[r].res.success
               /\ reqs'[r].res.data = reqs[r].loc.product]_vars
\* the owner and the admin both sent such an update for product 1, both got
\* 200, and product 1 is as it was
C17_Witness ==
  \E r, s \in Reqs :
    /\ reqs[r].route = "PUT /products/:id" /\ reqs[s].route = "PUT /products/:id"
    /\ reqs[r].body = [user |-> 1, rating |-> 5] /\ reqs[s].body = reqs[r].body
    /\ reqs[r].pc = "done" /\ reqs[r].res.status = 200 /\ reqs[r].user["_id"] = 1
    /\ reqs[s].pc = "done" /\ reqs[s].res.status = 200 /\ reqs[s].user["_id"] = 2
    /\ 1 \in DOMAIN products /\ products[1] = SeedProducts[1]

\* C18: a step of updateUserProfile removes and adds no user, leaves every
\* user but the caller as stored, and leaves the caller's role, isActive,
\* password digest and lastLogin (and every field but name and email) as
\* stored; so no profile update makes a user an admin.
C18_ProfileFrame ==
  [][\A r \in Reqs :
       (Steps(r) /\ Handler(reqs[r]) = "updateUserProfile")
       => /\ DOMAIN users' = DOMAIN users
          /\ \A id \in DOMAIN users :
               IF id # reqs[r].user["_id"]
               THEN users'[id] = users[id]
               ELSE /\ users'[id].role = users[id].role
                    /\ users'[id].isActive = users[id].isActive
                    /\ users'[id].password = users[id].password
                    /\ DOMAIN users'[id] = DOMAIN users[id]
                    /\ \A f \in DOMAIN users[id] \ {"name", "email"} :
                         users'[id][f] = users[id][f]]_vars
\* user 4 logged in and then sent a profile update asking for the admin role:
\* the name was changed, the role and lastLogin were not
C18_Witness ==
  \E r \in Reqs :
    /\ reqs[r].route = "PUT /users/profile" /\ reqs[r].pc = "done"
    /\ Has(reqs[r].body, "role") /\ reqs[r].body.role = "admin"
    /\ reqs[r].res.status = 200 /\ reqs[r].user["_id"] = 4
    /\ 4 \in DOMAIN users /\ users[4].name = "Ann" /\ users[4].role = "user"
    /\ users[4].isActive /\ Has(users[4], "lastLogin")

UserNotFound == [name |-> "Error", message |-> "User not found"]

\* C19: when the controller of a request addressed to an id starts and no
\* document with that id is stored, the request ends there and no store is
\* written: get, update and delete of a product answer 404 "Product not
\* found" (whoever the caller is), deleteUser and getUserProfile fail with
\* "User not found".
C19_NotFoundFirst ==
  [][\A r \in Reqs :
       LET q == reqs[r]
       IN (Steps(r) /\ q.pc = "start") =>
            /\ (/\ Handler(q) \in {"getProductById", "updateProduct", "deleteProduct"}
                /\ q.param \notin DOMAIN products)
               => /\ reqs'[r].pc = "done"
                  /\ reqs'[r].res = [status |-> 404, success |-> FALSE,
                                     message |-> "Product not found"]
                  /\ UNCHANGED <<users, products, categories>>
            /\ (Handler(q) = "deleteUser" /\ q.param \notin DOMAIN users)
               => /\ reqs'[r].pc = "done" /\ reqs'[r].thrown = UserNotFound
                  /\ reqs'[r].res.success = FALSE
                  /\ UNCHANGED <<users, products, categories>>
            /\ (Handler(q) = "getUserProfile" /\ q.user["_id"] \notin DOMAIN users)
               => /\ reqs'[r].pc = "done" /\ reqs'[r].thrown = UserNotFound
                  /\ reqs'[r].res.success = FALSE
                  /\ UNCHANGED <<users, products, categories>>]_vars
\* user 2 was deleted after protect let her request through, so her profile
\* was not found; and a get of product 2, which is not stored, got the 404
C19_Witness ==
  \E r, s \in Reqs :
    /\ reqs[r].route = "GET /users/profile" /\ reqs[r].pc = "done"
    /\ reqs[r].thrown = UserNotFound /\ 2 \notin DOMAIN users
    /\ reqs[s].route = "GET /products/:id" /\ reqs[s].param = 2
    /\ reqs[s].pc = "done" /\ reqs[s].res.status = 404
    /\ 1 \in DOMAIN products

\* the page and the limit a list request asks for, as numbers
AskedPage(q) ==
  IF Has(q.body, "page") THEN CHOOSE n \in 1..3 : q.body.page = <<"1", "2", "3">>[n] ELSE 1
AskedLimit(q) ==
  IF Has(q.body, "limit") THEN CHOOSE n \in 1..3 : q.body.limit = <<"1", "2", "3">>[n] ELSE 10
\* the least k with k * l >= n
Ceiling(n, l) == CHOOSE k \in 0..n : k * l >= n /\ (k = 0 \/ (k - 1) * l < n)

\* C20: for getAllUsers with page p and limit l (query strings, or 1 and 10
\* by default) the fetch returns min(l, max(0, N - (p - 1) * l)) users of the
\* N stored at the fetch, and the answer, for the N stored at the count, has
\* totalPages = ceil(N / l), totalUsers = N, hasNext iff p * l < N, hasPrev
\* iff p > 1, and carries the users fetched.
C20_Pagination ==
  [][\A r \in Reqs :
       LET q == reqs[r]
           p == AskedPage(q)
           l == AskedLimit(q)
           N == Cardinality(DOMAIN users)
           rest == IF N - (p - 1) * l > 0 THEN N - (p - 1) * l ELSE 0
       IN /\ (Steps(r) /\ At(r, "getAllUsers", "start"))
             => /\ reqs'[r].pc = "count"
                /\ Len(reqs'[r].loc.users) = (IF l < rest THEN l ELSE rest)
          /\ (Steps(r) /\ At(r, "getAllUsers", "count"))
             => /\ reqs'[r].pc = "done" /\ reqs'[r].res.status = 200
                /\ reqs'[r].res.data.users = q.loc.users
                /\ reqs'[r].res.data.pagination =
                     [currentPage |-> p, totalPages |-> Ceiling(N, l),
                      totalUsers |-> N, hasNext |-> (p * l < N),
                      hasPrev |-> (p > 1)]]_vars
\* page 2 of three users, two to a page: one user, two pages, no next page
C20_Witness ==
  \E r \in Reqs :
    /\ reqs[r].route = "GET /users" /\ reqs[r].pc = "done"
    /\ reqs[r].body = [page |-> "2", limit |-> "2"]
    /\ reqs[r].res.status = 200
    /\ Len(reqs[r].res.data.users) = 1
    /\ reqs[r].res.data.pagination =
         [currentPage |-> 2, totalPages |-> 2, totalUsers |-> 3,
          hasNext |-> FALSE, hasPrev |-> TRUE]

\* C21: every step of optionalAuth sends no response; its first step either
\* waits for the subject to be loaded (exactly when the header carries a
\* token this server signed that is not expired) or calls next with req.user
\* unset; its second step calls next, with req.user the stored user when the
\* subject is stored and active, and unset otherwise.  So next is called
\* exactly once, whatever the header and the user.
C21_OptionalAuthContinues ==
  [][\A r \in Reqs :
       (Steps(r) /\ Handler(reqs[r]) = "optionalAuth") =>
         LET tok == extractToken(reqs[r].hdr)
             live == Signed(tok) /\ now < tok.jwt.exp
         IN /\ reqs'[r].sent = 0 /\ reqs'[r].res = NoRes /\ reqs'[r].thrown = NoRes
            /\ reqs[r].user = NoUser
            /\ reqs[r].pc = "start" =>
                 IF live
                 THEN /\ reqs'[r].pc = "findById" /\ reqs'[r].idx = reqs[r].idx
                      /\ reqs'[r].user = NoUser
                 ELSE /\ reqs'[r].pc = "start" /\ reqs'[r].idx = reqs[r].idx + 1
                      /\ reqs'[r].user = NoUser
            /\ reqs[r].pc = "findById" =>
                 /\ reqs'[r].pc = "start" /\ reqs'[r].idx = reqs[r].idx + 1
                 /\ reqs'[r].user =
                      IF SubjectId(tok) \in DOMAIN users /\ users[SubjectId(tok)].isActive
                      THEN withoutPassword(users[SubjectId(tok)])
                      ELSE NoUser]_vars
\* one request went on identified as the admin, another went on anonymous
\* with a live token of the deactivated user 3
C21_Witness ==
  \E r, s \in Reqs :
    /\ reqs[r].route = "optionalAuth" /\ reqs[r].idx = 2 /\ reqs[r].sent = 0
    /\ reqs[r].user = withoutPassword(users[1])
    /\ reqs[s].route = "optionalAuth" /\ reqs[s].idx = 2 /\ reqs[s].sent = 0
    /\ Signed(extractToken(reqs[s].hdr)) /\ SubjectId(extractToken(reqs[s].hdr)) = 3
    /\ now < extractToken(reqs[s].hdr).jwt.exp
    /\ reqs[s].user = NoUser

\* the routes that carry a validate middleware, their service handlers, and
\* the fields of a body that violate the route's schema
ValidatedRoutes == {"POST /users/register", "POST /users/login", "PUT /users/profile"}
ServiceHandlers == {"registerUser", "loginUser", "updateUserProfile"}
Violations(route, body) ==
  LET bad(f, ok(_), required) ==
        IF Has(body, f) THEN ~ok(body[f]) ELSE required
      anyString(v) == TRUE
  IN CASE route = "POST /users/register" ->
            {f \in {"name"} : bad(f, JoiName, TRUE)}
              \cup {f \in {"email"} : bad(f, JoiEmail, TRUE)}
              \cup {f \in {"password"} : bad(f, JoiPassword, TRUE)}
       [] route = "POST /users/login" ->
            {f \in {"email"} : bad(f, JoiEmail, TRUE)}
              \cup {f \in {"password"} : bad(f, anyString, TRUE)}
       [] route = "PUT /users/profile" ->
            {f \in {"name"} : bad(f, JoiName, FALSE)}
              \cup {f \in {"email"} : bad(f, JoiEmail, FALSE)}
       [] OTHER -> {}

EnvelopeFields == {"status", "success", "message", "data", "errors"}

\* C23 (as stated): every response sent follows the uniform envelope and
\* carries a boolean success field, true on a success status and false on an
\* error status.
C23_UniformEnvelope ==
  \A r \in Reqs :
    reqs[r].sent > 0 =>
      /\ DOMAIN reqs[r].res \subseteq EnvelopeFields
      /\ Has(reqs[r].res, "success")
      /\ reqs[r].res.success \in BOOLEAN
      /\ reqs[r].res.success <=> reqs[r].res.status < 400

\* C24 (as stated): validation comes before authentication on every route:
\* no request of a validated route is authenticated while its body violates
\* the schema, and a PUT /users/profile with a violating body ends with the
\* 400 of validation, protect not having attached anyone.
C24_ValidationBeforeAuth ==
  \A r \in Reqs :
    (reqs[r].route \in ValidatedRoutes /\ Violations(reqs[r].route, reqs[r].body) # {})
    => /\ reqs[r].user = NoUser
       /\ reqs[r].pc = "done" => reqs[r].res.status = 400

\* C24 (amended): the chain of a route runs authentication, then the role
\* check or the validation the route declares, then the controller:
\* register and login are validated and not authenticated; on PUT
\* /users/profile a request is validated only after protect attached its
\* subject, so a violating body gets the 400 only from an authenticated
\* caller and a request without a valid token gets the 401 whatever its
\* body; the role check and every controller of a bearer route run only with
\* a subject attached.
C24_AuthBeforeValidation ==
  \A r \in Reqs :
    LET q == reqs[r]
        authenticated == Has(q.user, "_id")
    IN /\ q.route \in UserPublicRoutes => ~authenticated
       /\ (q.route = "PUT /users/profile" /\ q.pc = "done" /\ q.res.status = 400)
            => authenticated /\ q.res.message = "Validation error"
       /\ (q.route = "PUT /users/profile" /\ q.pc = "done" /\ ~authenticated)
            => q.res.status = 401 /\ q.idx = 1
       /\ (q.route \in BearerRoutes /\ q.idx >= 2) => authenticated
       /\ (q.route = "GET /users" /\ q.idx >= 3) => q.user.role = "admin"
       /\ (q.route \in ValidatedRoutes /\ q.idx = Len(Chain(q.route)))
            => Violations(q.route, q.body) = {}
\* of two profile updates with the same violating body, the one without a
\* token got the 401 of protect and the one of user 2 the 400 of validate
C24_Witness ==
  \E r, s \in Reqs :
    /\ reqs[r].route = "PUT /users/profile" /\ reqs[s].route = "PUT /users/profile"
    /\ reqs[r].body = [name |-> "x"] /\ reqs[s].body = [name |-> "x"]
    /\ reqs[r].hdr = NoHeader /\ reqs[r].pc = "done" /\ reqs[r].idx = 1
    /\ reqs[r].res.status = 401
    /\ reqs[s].pc = "done" /\ reqs[s].idx = 2 /\ reqs[s].res.status = 400
    /\ reqs[s].user = withoutPassword(users[2])

\* C25: every stored category has a non-empty subcategories list: a step of
\* createCategory on a body with no name (or an empty one), with
\* subcategories missing or not an array, or with an empty array, answers 400
\* and leaves the categories as they were; and every step leaves the stored
\* categories as they were or appends one with a non-empty list (none is
\* updated or deleted).
C25_SubcategoriesNonEmpty ==
  [][/\ \A i \in 1..Len(categories') : categories'[i].subcategories # <<>>
     /\ Len(categories') >= Len(categories)
     /\ SubSeq(categories', 1, Len(categories)) = categories
     /\ \A r \in Reqs :
          LET b == reqs[r].body
          IN (/\ Steps(r) /\ At(r, "createCategory", "start")
              /\ IF Has(b, "name") /\ Has(b, "subcategories")
                 THEN \/ b.name = "" \/ ~b.subcategories.isArray
                      \/ b.subcategories.items = <<>>
                 ELSE TRUE)
             => /\ reqs'[r].pc = "done" /\ reqs'[r].res.status = 400
                /\ categories' = categories]_vars
\* a body with an empty array was answered 400, a well-formed one was stored
\* by the other client, and both stored categories have subcategories
C25_Witness ==
  \E r, s \in Reqs :
    /\ reqs[r].route = "POST /categories" /\ reqs[r].pc = "done"
    /\ reqs[r].body = [name |-> "toys", subcategories |-> Array(<<>>)]
    /\ reqs[r].res.status = 400
    /\ reqs[s].route = "POST /categories" /\ reqs[s].pc = "done"
    /\ reqs[s].res.status = 201
    /\ Len(categories) = 2 /\ categories[2].subcategories = <<"dolls">>

\* a stored product whose owner was deleted
Orphaned(id) ==
  id \in DOMAIN products /\ products[id].user \notin DOMAIN users

Admins(us) == {id \in DOMAIN us : us[id].role = "admin"}

\* C27: every step that adds a user is a create of registerUser and stores
\* it with role "user" and isActive true, whatever the body carries; no step
\* changes the role or isActive of a stored user; so the set of admins never
\* grows, a request is in an admin-only controller only with an admin
\* attached, and in a run from the empty store (the one without categories)
\* no admin is ever stored and no request passes restrictTo.
C27_RolesFixed ==
  [][/\ \A id \in DOMAIN users' :
          IF id \in DOMAIN users
          THEN /\ users'[id].role = users[id].role
               /\ users'[id].isActive = users[id].isActive
          ELSE /\ users'[id].role = "user" /\ users'[id].isActive = TRUE
               /\ \E r \in Reqs : At(r, "registerUser", "create")
     /\ Admins(users') \subseteq Admins(users)
     /\ \A r \in Reqs :
          (reqs'[r].route \in UserAdminRoutes /\ reqs'[r].idx >= 3) =>
             /\ reqs'[r].user.role = "admin"
             /\ categories # <<>>
     /\ categories = <<>> => Admins(users') = {}]_vars
\* in a run from the empty store, a registration asking for the admin role
\* was stored as an active user, and its GET /users was refused
C27_Witness ==
  \E r, s \in Reqs :
    /\ categories = <<>>
    /\ reqs[r].route = "POST /users/register" /\ reqs[r].pc = "done"
    /\ reqs[r].body.role = "admin" /\ reqs[r].res.status = 201
    /\ reqs[r].res.data.user.role = "user" /\ reqs[r].res.data.user.isActive
    /\ reqs[s].route = "GET /users" /\ reqs[s].pc = "done" /\ reqs[s].idx = 2
    /\ reqs[s].res.status = 403
    /\ reqs[s].user["_id"] = reqs[r].res.data.user["_id"]

\* a token of this server that generateToken did not make: a refresh token,
\* or one with another issuer or audience
NotAccessToken(tok) ==
  /\ Signed(tok)
  /\ \/ Has(tok.jwt, "type")
     \/ tok.jwt.iss # "nodejs-rest-api" \/ tok.jwt.aud # "api-users"

\* C28: protect treats a refresh token, and a token signed with the secret
\* for another issuer or audience, as it treats an access token: before the
\* token's own expiry its first step goes on to load the subject, at or after
\* it answers 401 "Token expired"; its second step attaches the stored,
\* active subject and calls next, and answers 401 otherwise.  The type
\* marker, the issuer and the audience are not looked at.
C28_RefreshAcceptedAsAccess ==
  [][\A r \in Reqs :
       LET q == reqs[r]
           tok == extractToken(q.hdr)
       IN (Steps(r) /\ Handler(q) = "protect" /\ NotAccessToken(tok)) =>
            /\ q.pc = "start" =>
                 IF now < tok.jwt.exp
                 THEN /\ reqs'[r].pc = "findById" /\ reqs'[r].sent = 0
                      /\ reqs'[r].loc.decoded = tok.jwt
                 ELSE /\ reqs'[r].pc = "done"
                      /\ reqs'[r].res = [status |-> 401, success |-> FALSE,
                                         message |-> "Token expired"]
            /\ q.pc = "findById" =>
                 IF SubjectId(tok) \in DOMAIN users /\ users[SubjectId(tok)].isActive
                 THEN /\ reqs'[r].idx = q.idx + 1 /\ reqs'[r].pc = "start"
                      /\ reqs'[r].sent = 0
                      /\ reqs'[r].user = withoutPassword(users[SubjectId(tok)])
                 ELSE reqs'[r].pc = "done" /\ reqs'[r].res.status = 401]_vars
\* at a time when an access token issued with it has expired, a refresh token
\* of user 2 got her profile; and a token for another audience got through
C28_Witness ==
  \E r, s \in Reqs :
    /\ reqs[r].route = "GET /users/profile" /\ reqs[r].pc = "done"
    /\ Has(extractToken(reqs[r].hdr).jwt, "type")
    /\ extractToken(reqs[r].hdr).jwt.type = "refresh"
    /\ now >= extractToken(reqs[r].hdr).jwt.iat + JwtExpire
    /\ reqs[r].res.status = 200 /\ reqs[r].res.data.user["_id"] = 2
    /\ reqs[s].pc = "done" /\ reqs[s].res.status = 200
    /\ extractToken(reqs[s].hdr).jwt.aud = "other-users"

\* C29 (as stated): no step writes a product whose owner is not stored at
\* that moment, and a request whose subject is no longer stored writes no
\* product: it neither creates, nor changes, nor deletes one.
C29_OwnerExistsAtWrite ==
  [][/\ \A id \in DOMAIN products' \ DOMAIN products :
          products'[id].user \in DOMAIN users
     /\ \A r \in Reqs :
          (/\ Steps(r) /\ products' # products)
          => reqs[r].user["_id"] \in DOMAIN users]_vars

\* C30 (as stated): when the save of an update answers 200, every
\* allow-listed field the body supplies, a falsy value (0, the empty string)
\* included, is stored with the value supplied.
C30_SuppliedFieldsStored ==
  [][\A r \in Reqs :
       (/\ Steps(r) /\ At(r, "updateProduct", "save")
        /\ reqs'[r].res.status = 200)
       => \A f \in UpdatableFields \cap DOMAIN reqs[r].body :
            /\ Has(products'[reqs[r].param], f)
            /\ products'[reqs[r].param][f] = reqs[r].body[f]]_vars

====
